---- MODULE Spec2Model ----
(***************************************************************************)
(* GoodCup: coffee brew log (React Native / Expo).                         *)
(*                                                                         *)
(* The model has four parts, each with its own specification:             *)
(*   SpecEquip    the settings screen and the beans screen over the        *)
(*                AsyncStorage documents they read and write;              *)
(*   SpecBrew     the new-brew form and the brew list;                     *)
(*   SpecSuggest  the suggestion calls of lib/openai (strict JSON parse,   *)
(*                cleaning, regex fallback);                               *)
(*   SpecKey      the resolution of the OpenAI credential.                 *)
(*                                                                         *)
(* Storage.  AsyncStorage serves all requests of the JS thread from one    *)
(* serial native queue, so requests take effect in the order they are      *)
(* issued and their callbacks come back in that order.  A request is       *)
(* therefore applied to `storage' at the step that issues it, its outcome  *)
(* (value read, success or rejection) is kept in the task that awaits it,  *)
(* and `queue' holds the awaiting tasks in issue order: only the head of   *)
(* the queue can resume.                                                   *)
(*                                                                         *)
(* React state.  setX(v) is modelled as an assignment of the state         *)
(* variable; a handler reads the state of the render in which it was       *)
(* invoked, i.e. the values at its first step, which it keeps in its task. *)
(*                                                                         *)
(* Optional values (string | null, field?: T) are sequences of length at   *)
(* most one: <<>> is null / undefined / absent, <<v>> is the value v.      *)
(***************************************************************************)
EXTENDS Integers, Sequences, FiniteSets, TLC

(* ---------------------------------------------------------------- bounds *)
\* user events (handler invocations and form edits) in one behaviour
MaxOps == 3
\* storage requests that may be rejected in one behaviour
MaxFaults == 1
\* the millisecond clock runs from ClockStart to ClockStart + MaxTicks
MaxTicks == 2
\* first value of the clock (any value that is not a seeded id '1' or '2')
ClockStart == 1000

(* --------------------------------------------------------------- helpers *)
None == <<>>

Some(v) == <<v>>

Min2(a, b) == IF a <= b THEN a ELSE b

Range(s) == {s[i] : i \in 1..Len(s)}

\* Characters are modelled as tokens (strings); a JS string is a sequence
\* of tokens.  White space as String.prototype.trim and \s see it.
IsSpace(c) == c \in {" ", "NL"}

RECURSIVE TrimStart(_)
TrimStart(s) ==
  IF s # <<>> /\ IsSpace(Head(s)) THEN TrimStart(Tail(s)) ELSE s

RECURSIVE TrimEnd(_)
TrimEnd(s) ==
  IF s # <<>> /\ IsSpace(s[Len(s)]) THEN TrimEnd(SubSeq(s, 1, Len(s) - 1))
  ELSE s

\* String.prototype.trim
Trim(s) == TrimEnd(TrimStart(s))

\* The fields the code can set to undefined: in a Brew (the record with a
\* grindSize) bloomTime, brewDevice and grinder; in a device, a grinder or a
\* bean notes and photo.
OptionalFields(r) ==
  IF "grindSize" \in DOMAIN r THEN {"bloomTime", "brewDevice", "grinder"}
  ELSE {"notes", "photo"}

\* The keys of the stored objects, in the order they are written.
FieldOrder ==
  << "id", "timestamp", "name", "type", "beanName", "roaster", "origin",
     "process", "roastLevel", "flavorNotes", "description", "photo",
     "steepTime", "useBloom", "bloomTime", "grindSize", "waterTemp", "rating",
     "notes", "brewDevice", "grinder" >>

\* A wrong stringify, for comparison: optional members are dropped even when
\* they are set.  C1 does not hold of it.
StringifyObject_dropsOptional(r) ==
  LET keys == SelectSeq(FieldOrder,
                LAMBDA g : g \in DOMAIN r /\ g \notin OptionalFields(r))
  IN [i \in 1..Len(keys) |-> << keys[i], r[keys[i]] >>]

\* JSON.stringify of one object: the text is the list of its key/value
\* members; keys whose value is undefined are dropped.
StringifyObject(r) ==
  LET keys == SelectSeq(FieldOrder,
                LAMBDA g : /\ g \in DOMAIN r
                           /\ ~(g \in OptionalFields(r) /\ r[g] = None))
  IN [i \in 1..Len(keys) |-> << keys[i], r[keys[i]] >>]

\* JSON.stringify of an array of objects.
JSONStringify(arr) == [i \in 1..Len(arr) |-> StringifyObject(arr[i])]

\* JSON.parse of one object text: an object with the keys of the members;
\* of a repeated key the last member counts.
ParseObject(members) ==
  [f \in {members[i][1] : i \in 1..Len(members)} |->
     members[CHOOSE i \in 1..Len(members) :
               /\ members[i][1] = f
               /\ \A j \in (i + 1)..Len(members) : members[j][1] # f][2]]

\* JSON.parse of a stored document.
JSONParse(doc) == [i \in 1..Len(doc) |-> ParseObject(doc[i])]

\* A document whose text was cut off after the key of its last member: the
\* member has no value.
CutOff(doc) ==
  LET last == doc[Len(doc)]
  IN [doc EXCEPT ![Len(doc)] =
        [last EXCEPT ![Len(last)] = << last[Len(last)][1] >>]]

\* JSON.parse throws a SyntaxError on the document.
JSONParseThrows(doc) ==
  \E i \in 1..Len(doc) : \E k \in 1..Len(doc[i]) : Len(doc[i][k]) # 2

\* Property read o.f of a JS object: undefined when the key is missing.
Get(r, f) == IF f \in DOMAIN r THEN r[f] ELSE None

\* Two objects agree on every field read.
SameObject(a, b) ==
  \A f \in (DOMAIN a) \cup (DOMAIN b) : Get(a, f) = Get(b, f)

SameArray(a, b) ==
  /\ Len(a) = Len(b)
  /\ \A i \in 1..Len(a) : SameObject(a[i], b[i])

(* ------------------------------------------------------------- variables *)
VARIABLES
  storage,            \* AsyncStorage: key -> None | Some(value)
  queue,              \* tasks awaiting a storage callback, in issue order
  now,                \* Date.now()
  ops,                \* user events so far
  faults,             \* rejected storage requests so far
  lastAlert,          \* texts of the Alert.alert calls of the last step that alerted
  unhandled,          \* a promise rejection escaped a handler
  \* settings screen (settings.tsx)
  brewDevices, grinders, defaultBrewDevice, defaultGrinder,
  savedApiKey, refreshing, newDevice, newGrinder,
  \* process.env.EXPO_PUBLIC_OPENAI_API_KEY, fixed at build time
  envApiKey,
  \* beans screen
  beans, newBean, loading, showAddForm, confirmDelete,
  \* history: the array each screen held with its last successful write
  lastWritten,
  \* new-brew form ([beanId]/brew.tsx)
  form, selectedBrewDevice, selectedGrinder, formBrewDevices, formGrinders,
  \* brew list ([beanId]/brews.tsx)
  allBrews, filteredBrews, brewsRefreshing, beanNameFilter,
  \* history: the successful writes of handleSaveBrew, and the document the
  \* last completed loadBrews read
  saveLog, loaded,
  \* lib/openai: the request in flight, the message content of the response,
  \* the outcome of the suggestion call, the outcome of getApiKey
  suggestionCall, messageContent, suggestionResult, apiKeyResult,
  \* history: the object the response text was written from, and whether the
  \* storage read of the last key resolution was rejected
  responseObject, keyReadFailed,
  \* lib/openai, analyzeImage: the message content of the response and the
  \* outcome of the call
  imageContent, imageResult,
  \* history: what the running (or last) call of lib/openai did, in order
  callEvents,
  \* beans screen, suggestion modal
  selectedBeanForSuggestion, suggestionModalVisible, gettingSuggestion,
  modalSuggestionText, beanSuggestion, navigationData,
  \* getOptimalBrewSuggestions: the call of lib/openai it awaits, or "idle"
  optimalPc,
  \* getBrewSuggestions: the arguments and parsed equipment documents its
  \* prompt is built from, and the parts built
  promptArgs, promptParts,
  \* brew details modal of the list ([beanId]/brews.tsx); detailsVisible is
  \* its suggestionModalVisible
  selectedBrew, suggestion, detailsVisible, loadingSuggestion,
  \* the getBrewSuggestions calls of fetchSuggestion that have not returned
  fetches,
  \* 'Use Suggestion & Brew': the route params pushed, the navigationData
  \* they were made from (history), whether the effect of the brew screen
  \* has run on them, and the suggestion state of the brew screen
  params, pushed, effectRan, brewSuggestion,
  \* brew timer: the state of the component (timerActive, timerSeconds,
  \* timerInterval), the state its callbacks were rendered with, the
  \* intervals that are set and not cleared, and how many were set
  timer, rendered, live, created

settingsVars ==
  << brewDevices, grinders, defaultBrewDevice, defaultGrinder, savedApiKey,
     refreshing, newDevice, newGrinder >>

beansVars == << beans, newBean, loading, showAddForm, confirmDelete >>

brewVars ==
  << form, selectedBrewDevice, selectedGrinder, formBrewDevices, formGrinders,
     allBrews, filteredBrews, brewsRefreshing, beanNameFilter, saveLog, loaded >>

openaiVars ==
  << suggestionCall, messageContent, suggestionResult, apiKeyResult,
     responseObject, keyReadFailed, imageContent, imageResult, callEvents >>

modalVars ==
  << selectedBeanForSuggestion, suggestionModalVisible, gettingSuggestion,
     modalSuggestionText, beanSuggestion, navigationData, optimalPc >>

promptVars == << promptArgs, promptParts >>

detailVars ==
  << selectedBrew, suggestion, detailsVisible, loadingSuggestion, fetches >>

\* the screens that take no part in the storage documents
routeVars == << params, pushed, effectRan, brewSuggestion >>

timerVars == << timer, rendered, live, created >>

screenVars == << detailVars, routeVars, timerVars >>

\* the variables a screen's handlers leave alone
notSettings == << beansVars, brewVars, openaiVars, modalVars, promptVars, screenVars >>

notBeans == << settingsVars, brewVars, openaiVars, modalVars, promptVars, screenVars >>

notBrew ==
  << settingsVars, beansVars, envApiKey, lastWritten, openaiVars, modalVars,
     promptVars, screenVars >>

notOpenai ==
  << settingsVars, beansVars, brewVars, lastWritten, modalVars, promptVars, screenVars >>

(* --------------------------------------------------------------- storage *)
BREW_DEVICES_STORAGE_KEY == "@GoodCup:brewDevices"

GRINDERS_STORAGE_KEY == "@GoodCup:grinders"

DEFAULT_BREW_DEVICE_KEY == "@GoodCup:defaultBrewDevice"

DEFAULT_GRINDER_KEY == "@GoodCup:defaultGrinder"

BEANS_STORAGE_KEY == "@GoodCup:beans"

BREWS_STORAGE_KEY == "@GoodCup:brews"

API_KEY_STORAGE_KEY == "@GoodCup:openaiApiKey"

StorageKeys ==
  { BREW_DEVICES_STORAGE_KEY, GRINDERS_STORAGE_KEY, DEFAULT_BREW_DEVICE_KEY,
    DEFAULT_GRINDER_KEY, BEANS_STORAGE_KEY, BREWS_STORAGE_KEY,
    API_KEY_STORAGE_KEY }

\* Outcomes a storage request can have: it is carried out, or (while the
\* fault budget lasts) rejected.
Outcomes == IF faults < MaxFaults THEN {TRUE, FALSE} ELSE {TRUE}

\* AsyncStorage.setItem(key, value) / removeItem(key) with outcome ok.
SetItem(key, value, ok) ==
  /\ storage' = IF ok THEN [storage EXCEPT ![key] = Some(value)] ELSE storage
  /\ faults' = IF ok THEN faults ELSE faults + 1

RemoveItem(key, ok) ==
  /\ storage' = IF ok THEN [storage EXCEPT ![key] = None] ELSE storage
  /\ faults' = IF ok THEN faults ELSE faults + 1

\* AsyncStorage.getItem(key) with outcome ok: the value is storage[key].
GetItem(key, ok) ==
  /\ storage' = storage
  /\ faults' = IF ok THEN faults ELSE faults + 1

\* A task: the handler `op' suspended at the await `pc'; ok is the outcome
\* of the awaited request, id the handler's argument, data the value read
\* or the array the handler computed.
Task(op, pc, ok, id, data) ==
  [op |-> op, pc |-> pc, ok |-> ok, id |-> id, data |-> data]

Awaiting(op, pc) == queue # <<>> /\ queue[1].op = op /\ queue[1].pc = pc

\* The head task finishes / suspends at its next await.
Finish == queue' = Tail(queue)

Suspend(t) == queue' = Append(Tail(queue), t)

\* A user event starts a handler.
UserEvent == ops < MaxOps /\ ops' = ops + 1

(* -------------------------------------------------- credential (lib/openai) *)
\* The placeholder 'your_openai_api_key_here' of the env template, one token.
Placeholder == <<"your_openai_api_key_here">>

\* getApiKeyInternal, first half: the environment value is used when it is
\* set, not blank and not the placeholder.
EnvUsable(env) ==
  /\ env # None
  /\ env[1] # <<>>
  /\ Trim(env[1]) # <<>>
  /\ env[1] # Placeholder

\* A resolution that returns whatever it read, for comparison.  C29 does
\* not hold of it.
StoredKeyResult_asRead(read, ok) == IF ok THEN read ELSE None

\* getApiKeyInternal, second half: the value read from storage is used when
\* it is not blank; a rejected read is caught and gives null.
StoredKeyResult(read, ok) ==
  IF ok /\ read # None /\ read[1] # <<>> /\ Trim(read[1]) # <<>>
  THEN Some(read[1]) ELSE None

(* --------------------------------------------------- settings (settings.tsx) *)
defaultDevices ==
  << [id |-> "1", name |-> "Hario Switch", type |-> "Immersion/Pour Over",
      notes |-> Some("Versatile brewer")],
     [id |-> "2", name |-> "Aeropress", type |-> "Immersion/Pressure",
      notes |-> Some("Portable coffee maker")] >>

defaultGrinders ==
  << [id |-> "1", name |-> "1Zpresso J-Max", type |-> "Hand Grinder",
      notes |-> Some("Premium hand grinder")],
     [id |-> "2", name |-> "Baratza Encore", type |-> "Electric Grinder",
      notes |-> Some("Entry-level electric burr grinder")] >>

\* What the user can have typed into an add-equipment form.
EquipmentForms ==
  { [name |-> "Kalita", type |-> "Pour Over", notes |-> ""],
    [name |-> "Kalita", type |-> "Pour Over", notes |-> "flat bed"],
    [name |-> "Kalita", type |-> "", notes |-> ""] }

EmptyForm == [name |-> "", type |-> "", notes |-> ""]

\* x || undefined
OrUndefined(x) == IF x = "" THEN None ELSE Some(x)

\* Date.now(): the clock may have advanced since it was last read.
Clock == now .. Min2(now + 1, ClockStart + MaxTicks)

Ids(arr) == {arr[i].id : i \in 1..Len(arr)}

\* arr.filter(x => x.id !== id)
WithoutId(arr, id) == SelectSeq(arr, LAMBDA x : x.id # id)

\* The user types into the add-device / add-grinder form.
EditDeviceForm ==
  /\ UserEvent
  /\ \E f \in EquipmentForms : newDevice' = f
  /\ UNCHANGED << storage, queue, now, faults, lastAlert, unhandled,
                  brewDevices, grinders, defaultBrewDevice, defaultGrinder,
                  savedApiKey, refreshing, newGrinder, envApiKey, notSettings, lastWritten >>

EditGrinderForm ==
  /\ UserEvent
  /\ \E f \in EquipmentForms : newGrinder' = f
  /\ UNCHANGED << storage, queue, now, faults, lastAlert, unhandled,
                  brewDevices, grinders, defaultBrewDevice, defaultGrinder,
                  savedApiKey, refreshing, newDevice, envApiKey, notSettings, lastWritten >>

\* addBrewDevice up to its await: the new record is appended to the state
\* array and the whole array is written.
addBrewDevice_press ==
  /\ UserEvent
  /\ newDevice.name # "" /\ newDevice.type # ""
  /\ \E t \in Clock, ok \in Outcomes :
       LET dev == [id |-> ToString(t), name |-> newDevice.name,
                   type |-> newDevice.type,
                   notes |-> OrUndefined(newDevice.notes)]
           updatedDevices == Append(brewDevices, dev)
       IN /\ now' = t
          /\ brewDevices' = updatedDevices
          /\ SetItem(BREW_DEVICES_STORAGE_KEY, JSONStringify(updatedDevices), ok)
          /\ queue' = Append(queue, Task("addBrewDevice", "write", ok, "", <<>>))
          /\ lastWritten' =
               IF ok THEN [lastWritten EXCEPT ![BREW_DEVICES_STORAGE_KEY] =
                                                Some(updatedDevices)]
               ELSE lastWritten
  /\ UNCHANGED << lastAlert, unhandled, grinders, defaultBrewDevice,
                  defaultGrinder, savedApiKey, refreshing, newDevice,
                  newGrinder, envApiKey, notSettings >>

\* addBrewDevice after the write: the form is reset; a rejected write is
\* not caught.
addBrewDevice_done ==
  /\ Awaiting("addBrewDevice", "write")
  /\ Finish
  /\ IF queue[1].ok
     THEN newDevice' = EmptyForm /\ unhandled' = unhandled
     ELSE newDevice' = newDevice /\ unhandled' = TRUE
  /\ UNCHANGED << storage, now, ops, faults, lastAlert, brewDevices, grinders,
                  defaultBrewDevice, defaultGrinder, savedApiKey, refreshing,
                  newGrinder, envApiKey, notSettings, lastWritten >>

addBrewDevice == addBrewDevice_press \/ addBrewDevice_done

addGrinder_press ==
  /\ UserEvent
  /\ newGrinder.name # "" /\ newGrinder.type # ""
  /\ \E t \in Clock, ok \in Outcomes :
       LET gr == [id |-> ToString(t), name |-> newGrinder.name,
                  type |-> newGrinder.type,
                  notes |-> OrUndefined(newGrinder.notes)]
           updatedGrinders == Append(grinders, gr)
       IN /\ now' = t
          /\ grinders' = updatedGrinders
          /\ SetItem(GRINDERS_STORAGE_KEY, JSONStringify(updatedGrinders), ok)
          /\ queue' = Append(queue, Task("addGrinder", "write", ok, "", <<>>))
          /\ lastWritten' =
               IF ok THEN [lastWritten EXCEPT ![GRINDERS_STORAGE_KEY] =
                                                Some(updatedGrinders)]
               ELSE lastWritten
  /\ UNCHANGED << lastAlert, unhandled, brewDevices, defaultBrewDevice,
                  defaultGrinder, savedApiKey, refreshing, newDevice,
                  newGrinder, envApiKey, notSettings >>

addGrinder_done ==
  /\ Awaiting("addGrinder", "write")
  /\ Finish
  /\ IF queue[1].ok
     THEN newGrinder' = EmptyForm /\ unhandled' = unhandled
     ELSE newGrinder' = newGrinder /\ unhandled' = TRUE
  /\ UNCHANGED << storage, now, ops, faults, lastAlert, brewDevices, grinders,
                  defaultBrewDevice, defaultGrinder, savedApiKey, refreshing,
                  newDevice, envApiKey, notSettings, lastWritten >>

addGrinder == addGrinder_press \/ addGrinder_done

\* defaultBrewDevice === id (resp. defaultGrinder === id), on the values the
\* handler closed over
RemovedIsDefault(task) == task.data = task.id

\* handleRemoveBrewDevice(id) up to its first await: the record is filtered
\* out of the state array and the whole array is written.  The task keeps
\* the defaultBrewDevice of the render the handler was created in.
handleRemoveBrewDevice_press ==
  /\ UserEvent
  /\ \E id \in Ids(brewDevices), ok \in Outcomes :
       LET updatedDevices == WithoutId(brewDevices, id)
       IN /\ brewDevices' = updatedDevices
          /\ SetItem(BREW_DEVICES_STORAGE_KEY, JSONStringify(updatedDevices), ok)
          /\ queue' = Append(queue, Task("handleRemoveBrewDevice", "write", ok,
                                         id, defaultBrewDevice))
          /\ lastWritten' =
               IF ok THEN [lastWritten EXCEPT ![BREW_DEVICES_STORAGE_KEY] =
                                                Some(updatedDevices)]
               ELSE lastWritten
  /\ UNCHANGED << now, lastAlert, unhandled, grinders, defaultBrewDevice,
                  defaultGrinder, savedApiKey, refreshing, newDevice,
                  newGrinder, envApiKey, notSettings >>

\* after the write: a removed default is cleared from storage (second await)
handleRemoveBrewDevice_written ==
  /\ Awaiting("handleRemoveBrewDevice", "write")
  /\ LET task == queue[1]
     IN IF ~task.ok
        THEN /\ lastAlert' = <<"Failed to remove brew device.">>
             /\ Finish
             /\ UNCHANGED << storage, faults >>
        ELSE IF RemovedIsDefault(task)
        THEN /\ \E ok \in Outcomes :
                  /\ RemoveItem(DEFAULT_BREW_DEVICE_KEY, ok)
                  /\ Suspend([task EXCEPT !.pc = "clear", !.ok = ok])
             /\ lastAlert' = lastAlert
        ELSE /\ Finish
             /\ UNCHANGED << storage, faults, lastAlert >>
  /\ UNCHANGED << now, ops, unhandled, brewDevices, grinders,
                  defaultBrewDevice, defaultGrinder, savedApiKey, refreshing,
                  newDevice, newGrinder, envApiKey, notSettings, lastWritten >>

\* after removeItem: the in-memory default is cleared
handleRemoveBrewDevice_cleared ==
  /\ Awaiting("handleRemoveBrewDevice", "clear")
  /\ Finish
  /\ IF queue[1].ok
     THEN defaultBrewDevice' = "" /\ lastAlert' = lastAlert
     ELSE defaultBrewDevice' = defaultBrewDevice
          /\ lastAlert' = <<"Failed to remove brew device.">>
  /\ UNCHANGED << storage, now, ops, faults, unhandled, brewDevices, grinders,
                  defaultGrinder, savedApiKey, refreshing, newDevice,
                  newGrinder, envApiKey, notSettings, lastWritten >>

handleRemoveBrewDevice ==
  \/ handleRemoveBrewDevice_press
  \/ handleRemoveBrewDevice_written
  \/ handleRemoveBrewDevice_cleared

handleRemoveGrinder_press ==
  /\ UserEvent
  /\ \E id \in Ids(grinders), ok \in Outcomes :
       LET updatedGrinders == WithoutId(grinders, id)
       IN /\ grinders' = updatedGrinders
          /\ SetItem(GRINDERS_STORAGE_KEY, JSONStringify(updatedGrinders), ok)
          /\ queue' = Append(queue, Task("handleRemoveGrinder", "write", ok,
                                         id, defaultGrinder))
          /\ lastWritten' =
               IF ok THEN [lastWritten EXCEPT ![GRINDERS_STORAGE_KEY] =
                                                Some(updatedGrinders)]
               ELSE lastWritten
  /\ UNCHANGED << now, lastAlert, unhandled, brewDevices, defaultBrewDevice,
                  defaultGrinder, savedApiKey, refreshing, newDevice,
                  newGrinder, envApiKey, notSettings >>

handleRemoveGrinder_written ==
  /\ Awaiting("handleRemoveGrinder", "write")
  /\ LET task == queue[1]
     IN IF ~task.ok
        THEN /\ lastAlert' = <<"Failed to remove grinder.">>
             /\ Finish
             /\ UNCHANGED << storage, faults >>
        ELSE IF RemovedIsDefault(task)
        THEN /\ \E ok \in Outcomes :
                  /\ RemoveItem(DEFAULT_GRINDER_KEY, ok)
                  /\ Suspend([task EXCEPT !.pc = "clear", !.ok = ok])
             /\ lastAlert' = lastAlert
        ELSE /\ Finish
             /\ UNCHANGED << storage, faults, lastAlert >>
  /\ UNCHANGED << now, ops, unhandled, brewDevices, grinders,
                  defaultBrewDevice, defaultGrinder, savedApiKey, refreshing,
                  newDevice, newGrinder, envApiKey, notSettings, lastWritten >>

handleRemoveGrinder_cleared ==
  /\ Awaiting("handleRemoveGrinder", "clear")
  /\ Finish
  /\ IF queue[1].ok
     THEN defaultGrinder' = "" /\ lastAlert' = lastAlert
     ELSE defaultGrinder' = defaultGrinder
          /\ lastAlert' = <<"Failed to remove grinder.">>
  /\ UNCHANGED << storage, now, ops, faults, unhandled, brewDevices, grinders,
                  defaultBrewDevice, savedApiKey, refreshing, newDevice,
                  newGrinder, envApiKey, notSettings, lastWritten >>

handleRemoveGrinder ==
  \/ handleRemoveGrinder_press
  \/ handleRemoveGrinder_written
  \/ handleRemoveGrinder_cleared

\* setAsDefaultBrewDevice(id): the pointer is written, then the state is set
setAsDefaultBrewDevice_press ==
  /\ UserEvent
  /\ \E id \in Ids(brewDevices), ok \in Outcomes :
       /\ SetItem(DEFAULT_BREW_DEVICE_KEY, id, ok)
       /\ queue' = Append(queue, Task("setAsDefaultBrewDevice", "write", ok,
                                      id, <<>>))
  /\ UNCHANGED << now, lastAlert, unhandled, settingsVars, envApiKey, notSettings,
                  lastWritten >>

setAsDefaultBrewDevice_done ==
  /\ Awaiting("setAsDefaultBrewDevice", "write")
  /\ Finish
  /\ IF queue[1].ok
     THEN /\ defaultBrewDevice' = queue[1].id
          /\ lastAlert' = <<"Default brew device set successfully.">>
     ELSE /\ defaultBrewDevice' = defaultBrewDevice
          /\ lastAlert' = <<"Failed to set default brew device.">>
  /\ UNCHANGED << storage, now, ops, faults, unhandled, brewDevices, grinders,
                  defaultGrinder, savedApiKey, refreshing, newDevice,
                  newGrinder, envApiKey, notSettings, lastWritten >>

setAsDefaultBrewDevice ==
  setAsDefaultBrewDevice_press \/ setAsDefaultBrewDevice_done

setAsDefaultGrinder_press ==
  /\ UserEvent
  /\ \E id \in Ids(grinders), ok \in Outcomes :
       /\ SetItem(DEFAULT_GRINDER_KEY, id, ok)
       /\ queue' = Append(queue, Task("setAsDefaultGrinder", "write", ok,
                                      id, <<>>))
  /\ UNCHANGED << now, lastAlert, unhandled, settingsVars, envApiKey, notSettings,
                  lastWritten >>

setAsDefaultGrinder_done ==
  /\ Awaiting("setAsDefaultGrinder", "write")
  /\ Finish
  /\ IF queue[1].ok
     THEN /\ defaultGrinder' = queue[1].id
          /\ lastAlert' = <<"Default grinder set successfully.">>
     ELSE /\ defaultGrinder' = defaultGrinder
          /\ lastAlert' = <<"Failed to set default grinder.">>
  /\ UNCHANGED << storage, now, ops, faults, unhandled, brewDevices, grinders,
                  defaultBrewDevice, savedApiKey, refreshing, newDevice,
                  newGrinder, envApiKey, notSettings, lastWritten >>

setAsDefaultGrinder == setAsDefaultGrinder_press \/ setAsDefaultGrinder_done

\* loadData (on focus and on pull-to-refresh).  getApiKey reads storage only
\* when the environment gives no usable key.
loadData_start ==
  /\ UserEvent
  /\ refreshing' = TRUE
  /\ \E ok \in Outcomes :
       IF EnvUsable(envApiKey)
       THEN /\ savedApiKey' = Some(envApiKey[1])
            /\ GetItem(BREW_DEVICES_STORAGE_KEY, ok)
            /\ queue' = Append(queue, Task("loadData", "devices", ok, "",
                                           storage[BREW_DEVICES_STORAGE_KEY]))
       ELSE /\ savedApiKey' = savedApiKey
            /\ GetItem(API_KEY_STORAGE_KEY, ok)
            /\ queue' = Append(queue, Task("loadData", "apiKey", ok, "",
                                           storage[API_KEY_STORAGE_KEY]))
  /\ UNCHANGED << now, lastAlert, unhandled, brewDevices, grinders,
                  defaultBrewDevice, defaultGrinder, newDevice, newGrinder,
                  envApiKey, notSettings, lastWritten >>

loadData_apiKey ==
  /\ Awaiting("loadData", "apiKey")
  /\ savedApiKey' = StoredKeyResult(queue[1].data, queue[1].ok)
  /\ \E ok \in Outcomes :
       /\ GetItem(BREW_DEVICES_STORAGE_KEY, ok)
       /\ Suspend(Task("loadData", "devices", ok, "",
                       storage[BREW_DEVICES_STORAGE_KEY]))
  /\ UNCHANGED << now, ops, lastAlert, unhandled, brewDevices, grinders,
                  defaultBrewDevice, defaultGrinder, refreshing, newDevice,
                  newGrinder, envApiKey, notSettings, lastWritten >>

\* the catch block of loadData: the error is logged, refreshing is reset
loadData_failed ==
  /\ queue # <<>> /\ queue[1].op = "loadData" /\ queue[1].pc # "apiKey"
  /\ ~queue[1].ok
  /\ Finish
  /\ refreshing' = FALSE
  /\ UNCHANGED << storage, now, ops, faults, lastAlert, unhandled, brewDevices,
                  grinders, defaultBrewDevice, defaultGrinder, savedApiKey,
                  newDevice, newGrinder, envApiKey, notSettings, lastWritten >>

\* brew devices read: an absent document is seeded with the two defaults
loadData_devices ==
  /\ Awaiting("loadData", "devices") /\ queue[1].ok
  /\ \E ok \in Outcomes :
       IF queue[1].data # None
       THEN /\ brewDevices' = JSONParse(queue[1].data[1])
            /\ GetItem(GRINDERS_STORAGE_KEY, ok)
            /\ Suspend(Task("loadData", "grinders", ok, "",
                            storage[GRINDERS_STORAGE_KEY]))
            /\ lastWritten' = lastWritten
       ELSE /\ brewDevices' = defaultDevices
            /\ SetItem(BREW_DEVICES_STORAGE_KEY, JSONStringify(defaultDevices), ok)
            /\ Suspend(Task("loadData", "seedDevices", ok, "", <<>>))
            /\ lastWritten' =
                 IF ok THEN [lastWritten EXCEPT ![BREW_DEVICES_STORAGE_KEY] =
                                                  Some(defaultDevices)]
                 ELSE lastWritten
  /\ UNCHANGED << now, ops, lastAlert, unhandled, grinders, defaultBrewDevice,
                  defaultGrinder, savedApiKey, refreshing, newDevice,
                  newGrinder, envApiKey, notSettings >>

loadData_seedDevices ==
  /\ Awaiting("loadData", "seedDevices") /\ queue[1].ok
  /\ \E ok \in Outcomes :
       /\ GetItem(GRINDERS_STORAGE_KEY, ok)
       /\ Suspend(Task("loadData", "grinders", ok, "",
                       storage[GRINDERS_STORAGE_KEY]))
  /\ UNCHANGED << now, ops, lastAlert, unhandled, settingsVars, envApiKey,
                  notSettings, lastWritten >>

loadData_grinders ==
  /\ Awaiting("loadData", "grinders") /\ queue[1].ok
  /\ \E ok \in Outcomes :
       IF queue[1].data # None
       THEN /\ grinders' = JSONParse(queue[1].data[1])
            /\ GetItem(DEFAULT_BREW_DEVICE_KEY, ok)
            /\ Suspend(Task("loadData", "defaultDevice", ok, "",
                            storage[DEFAULT_BREW_DEVICE_KEY]))
            /\ lastWritten' = lastWritten
       ELSE /\ grinders' = defaultGrinders
            /\ SetItem(GRINDERS_STORAGE_KEY, JSONStringify(defaultGrinders), ok)
            /\ Suspend(Task("loadData", "seedGrinders", ok, "", <<>>))
            /\ lastWritten' =
                 IF ok THEN [lastWritten EXCEPT ![GRINDERS_STORAGE_KEY] =
                                                  Some(defaultGrinders)]
                 ELSE lastWritten
  /\ UNCHANGED << now, ops, lastAlert, unhandled, brewDevices,
                  defaultBrewDevice, defaultGrinder, savedApiKey, refreshing,
                  newDevice, newGrinder, envApiKey, notSettings >>

loadData_seedGrinders ==
  /\ Awaiting("loadData", "seedGrinders") /\ queue[1].ok
  /\ \E ok \in Outcomes :
       /\ GetItem(DEFAULT_BREW_DEVICE_KEY, ok)
       /\ Suspend(Task("loadData", "defaultDevice", ok, "",
                       storage[DEFAULT_BREW_DEVICE_KEY]))
  /\ UNCHANGED << now, ops, lastAlert, unhandled, settingsVars, envApiKey,
                  notSettings, lastWritten >>

\* default pointers: the state is set only when a pointer is stored
loadData_defaultDevice ==
  /\ Awaiting("loadData", "defaultDevice") /\ queue[1].ok
  /\ defaultBrewDevice' =
       IF queue[1].data # None /\ queue[1].data[1] # ""
       THEN queue[1].data[1] ELSE defaultBrewDevice
  /\ \E ok \in Outcomes :
       /\ GetItem(DEFAULT_GRINDER_KEY, ok)
       /\ Suspend(Task("loadData", "defaultGrinder", ok, "",
                       storage[DEFAULT_GRINDER_KEY]))
  /\ UNCHANGED << now, ops, lastAlert, unhandled, brewDevices, grinders,
                  defaultGrinder, savedApiKey, refreshing, newDevice,
                  newGrinder, envApiKey, notSettings, lastWritten >>

loadData_defaultGrinder ==
  /\ Awaiting("loadData", "defaultGrinder") /\ queue[1].ok
  /\ defaultGrinder' =
       IF queue[1].data # None /\ queue[1].data[1] # ""
       THEN queue[1].data[1] ELSE defaultGrinder
  /\ refreshing' = FALSE
  /\ Finish
  /\ UNCHANGED << storage, now, ops, faults, lastAlert, unhandled, brewDevices,
                  grinders, defaultBrewDevice, savedApiKey, newDevice,
                  newGrinder, envApiKey, notSettings, lastWritten >>

loadData ==
  \/ loadData_start
  \/ loadData_apiKey
  \/ loadData_failed
  \/ loadData_devices
  \/ loadData_seedDevices
  \/ loadData_grinders
  \/ loadData_seedGrinders
  \/ loadData_defaultDevice
  \/ loadData_defaultGrinder

\* What the input of the key holds when Save is pressed; the button is
\* disabled on an empty input.
KeyInputs == { << " " >>, << "sk-1" >>, << " ", "sk-1" >>, << "sk-2" >> }

KeySaved == << "API key saved successfully." >>

KeyRemoved == << "API key removed successfully." >>

\* What the handlers of the key leave alone.
notKey ==
  << now, unhandled, brewDevices, grinders, defaultBrewDevice, defaultGrinder,
     refreshing, newDevice, newGrinder, envApiKey, notSettings, lastWritten >>

\* handleSaveApiKey up to its await: saveApiKey(apiKey) writes the input.
handleSaveApiKey_press ==
  /\ UserEvent
  /\ \E apiKey \in KeyInputs, ok \in Outcomes :
       /\ SetItem(API_KEY_STORAGE_KEY, apiKey, ok)
       /\ queue' = Append(queue, Task("handleSaveApiKey", "write", ok, "",
                                      apiKey))
  /\ UNCHANGED << lastAlert, savedApiKey, notKey >>

\* after the write: the key is shown as saved, or the error of saveApiKey
\* is caught
handleSaveApiKey_done ==
  /\ Awaiting("handleSaveApiKey", "write")
  /\ Finish
  /\ IF queue[1].ok
     THEN /\ savedApiKey' = Some(queue[1].data)
          /\ lastAlert' = KeySaved
     ELSE /\ savedApiKey' = savedApiKey
          /\ lastAlert' = << "Failed to save API key. Please try again." >>
  /\ UNCHANGED << storage, ops, faults, notKey >>

handleSaveApiKey == handleSaveApiKey_press \/ handleSaveApiKey_done

\* Remove, shown while savedApiKey is truthy: saveApiKey('').
handleRemoveApiKey_press ==
  /\ UserEvent
  /\ savedApiKey # None /\ savedApiKey[1] # <<>>
  /\ \E ok \in Outcomes :
       /\ SetItem(API_KEY_STORAGE_KEY, <<>>, ok)
       /\ queue' = Append(queue, Task("handleRemoveApiKey", "write", ok, "",
                                      <<>>))
  /\ UNCHANGED << lastAlert, savedApiKey, notKey >>

handleRemoveApiKey_done ==
  /\ Awaiting("handleRemoveApiKey", "write")
  /\ Finish
  /\ IF queue[1].ok
     THEN /\ savedApiKey' = None
          /\ lastAlert' = KeyRemoved
     ELSE /\ savedApiKey' = savedApiKey
          /\ lastAlert' = << "Failed to remove API key. Please try again." >>
  /\ UNCHANGED << storage, ops, faults, notKey >>

handleRemoveApiKey == handleRemoveApiKey_press \/ handleRemoveApiKey_done

(* ------------------------------------------------------ beans (beans screen) *)
\* arr.sort((a, b) => b[field] - a[field]): stable, largest first.
RECURSIVE InsertDesc(_, _, _)
InsertDesc(sorted, x, field) ==
  IF sorted = <<>> THEN <<x>>
  ELSE IF Head(sorted)[field] >= x[field]
       THEN <<Head(sorted)>> \o InsertDesc(Tail(sorted), x, field)
       ELSE <<x>> \o sorted

RECURSIVE SortDescFrom(_, _, _)
SortDescFrom(sorted, arr, field) ==
  IF arr = <<>> THEN sorted
  ELSE SortDescFrom(InsertDesc(sorted, Head(arr), field), Tail(arr), field)

SortDesc(arr, field) == SortDescFrom(<<>>, arr, field)

\* What the user can have entered into the new-bean form.
BeanForms ==
  { [name |-> "Geisha", roastLevel |-> "2", flavorNotes |-> <<"floral">>,
     description |-> "washed", photo |-> None],
    [name |-> "Geisha", roastLevel |-> "", flavorNotes |-> <<>>,
     description |-> "", photo |-> Some("data:image/jpeg;base64")],
    [name |-> "", roastLevel |-> "3", flavorNotes |-> <<>>,
     description |-> "", photo |-> None] }

EmptyBeanForm ==
  [name |-> "", roastLevel |-> "", flavorNotes |-> <<>>, description |-> "",
   photo |-> None]

EditBeanForm ==
  /\ UserEvent
  /\ \E f \in BeanForms : newBean' = f
  /\ showAddForm' = TRUE
  /\ UNCHANGED << storage, queue, now, faults, lastAlert, unhandled, beans,
                  loading, confirmDelete, envApiKey, notBeans, lastWritten >>

\* loadBeans (on focus)
loadBeans_start ==
  /\ UserEvent
  /\ \E ok \in Outcomes :
       /\ GetItem(BEANS_STORAGE_KEY, ok)
       /\ queue' = Append(queue, Task("loadBeans", "read", ok, "",
                                      storage[BEANS_STORAGE_KEY]))
  /\ UNCHANGED << now, lastAlert, unhandled, beans, newBean, loading,
                  showAddForm, confirmDelete, envApiKey, notBeans, lastWritten >>

loadBeans_done ==
  /\ Awaiting("loadBeans", "read")
  /\ Finish
  /\ IF queue[1].ok
     THEN /\ beans' = IF queue[1].data # None
                      THEN SortDesc(JSONParse(queue[1].data[1]), "timestamp")
                      ELSE <<>>
          /\ lastAlert' = lastAlert
     ELSE /\ beans' = beans
          /\ lastAlert' = <<"Failed to load beans.">>
  /\ UNCHANGED << storage, now, ops, faults, unhandled, newBean, loading,
                  showAddForm, confirmDelete, envApiKey, notBeans, lastWritten >>

loadBeans == loadBeans_start \/ loadBeans_done

\* saveBeans(updatedBeans) after its await, as run by the task at the head
\* of the queue: the state is set only when the write succeeded; a rejected
\* write is caught here and alerts.
saveBeans_resumed(after) ==
  LET task == queue[1]
  IN IF task.ok
     THEN /\ beans' = task.data
          /\ lastWritten' = [lastWritten EXCEPT ![BEANS_STORAGE_KEY] =
                                                  Some(task.data)]
          /\ lastAlert' = IF after = <<>> THEN lastAlert ELSE after
     ELSE /\ beans' = beans
          /\ lastWritten' = lastWritten
          /\ lastAlert' = <<"Failed to save beans.">> \o after

\* addBean up to the await inside saveBeans
addBean_press ==
  /\ UserEvent
  /\ IF newBean.name = ""
     THEN /\ lastAlert' = <<"Please enter at least a name.">>
          /\ UNCHANGED << storage, queue, now, faults, loading >>
     ELSE /\ loading' = TRUE
          /\ lastAlert' = lastAlert
          /\ \E t \in Clock, t2 \in Clock, ok \in Outcomes :
               LET beanToAdd ==
                     [id |-> ToString(t), name |-> newBean.name,
                      roastLevel |-> IF newBean.roastLevel = "" THEN "unknown"
                                     ELSE newBean.roastLevel,
                      flavorNotes |-> newBean.flavorNotes,
                      description |-> newBean.description,
                      photo |-> newBean.photo,
                      timestamp |-> t2]
                   updatedBeans == Append(beans, beanToAdd)
               IN /\ t <= t2
                  /\ now' = t2
                  /\ SetItem(BEANS_STORAGE_KEY, JSONStringify(updatedBeans), ok)
                  /\ queue' = Append(queue, Task("addBean", "save", ok, "",
                                                 updatedBeans))
  /\ UNCHANGED << unhandled, beans, newBean, showAddForm, confirmDelete,
                  envApiKey, notBeans, lastWritten >>

\* addBean after saveBeans returned (saveBeans never rethrows)
addBean_done ==
  /\ Awaiting("addBean", "save")
  /\ Finish
  /\ saveBeans_resumed(<<"Bean added successfully!">>)
  /\ newBean' = EmptyBeanForm
  /\ showAddForm' = FALSE
  /\ loading' = FALSE
  /\ UNCHANGED << storage, now, ops, faults, unhandled, confirmDelete,
                  envApiKey, notBeans >>

addBean == addBean_press \/ addBean_done

\* deleteBean(id): a confirmation dialog whose Delete button closes over the
\* beans of the render that opened it.
deleteBean_ask ==
  /\ UserEvent
  /\ confirmDelete = None
  /\ \E id \in Ids(beans) : confirmDelete' = Some([id |-> id, beans |-> beans])
  /\ UNCHANGED << storage, queue, now, faults, lastAlert, unhandled, beans,
                  newBean, loading, showAddForm, envApiKey, notBeans,
                  lastWritten >>

deleteBean_cancel ==
  /\ UserEvent
  /\ confirmDelete # None
  /\ confirmDelete' = None
  /\ UNCHANGED << storage, queue, now, faults, lastAlert, unhandled, beans,
                  newBean, loading, showAddForm, envApiKey, notBeans,
                  lastWritten >>

deleteBean_confirm ==
  /\ UserEvent
  /\ confirmDelete # None
  /\ confirmDelete' = None
  /\ \E ok \in Outcomes :
       LET updatedBeans == WithoutId(confirmDelete[1].beans, confirmDelete[1].id)
       IN /\ SetItem(BEANS_STORAGE_KEY, JSONStringify(updatedBeans), ok)
          /\ queue' = Append(queue, Task("deleteBean", "save", ok,
                                         confirmDelete[1].id, updatedBeans))
  /\ UNCHANGED << now, lastAlert, unhandled, beans, newBean, loading,
                  showAddForm, envApiKey, notBeans, lastWritten >>

deleteBean_done ==
  /\ Awaiting("deleteBean", "save")
  /\ Finish
  /\ saveBeans_resumed(<<>>)
  /\ UNCHANGED << storage, now, ops, faults, unhandled, newBean, loading,
                  showAddForm, confirmDelete, envApiKey, notBeans >>

deleteBean ==
  deleteBean_ask \/ deleteBean_cancel \/ deleteBean_confirm \/ deleteBean_done

(* --------------------------------- loadBeans with the brews (beans.tsx) *)
\* loadBeans as beans.tsx has it: the beans of the bean document and, for
\* every bean name of the brews document that no bean carries, a bean made up
\* from the brews.

\* Array.from(new Set(brews.map(brew => brew.beanName))): the names in the
\* order of their first occurrence.
BrewBeanNames(brews) ==
  LET first == SelectSeq([i \in 1..Len(brews) |-> i],
                 LAMBDA i : \A j \in 1..(i - 1) :
                               brews[j].beanName # brews[i].beanName)
  IN [k \in 1..Len(first) |-> brews[first[k]].beanName]

\* The value of Math.random().toString(36).substr(2, 9) in a load: one of
\* these, followed by the count of the beans made up so far, as two draws
\* of one load differ.
RandomParts == {"k3j5x", "9xq1m"}

\* The basic bean entry for a name, made at time t.
BasicBean(beanName, brews, t, random) ==
  LET relatedBrews == SortDesc(SelectSeq(brews,
                                 LAMBDA brew : brew.beanName = beanName),
                               "rating")
      highestRatedBrew == relatedBrews[1]
  IN [id |-> "brew-bean-" \o ToString(t) \o "-" \o random,
      name |-> beanName,
      roaster |-> "Unknown",
      origin |-> "Unknown",
      process |-> "Unknown",
      roastLevel |-> "Unknown",
      flavorNotes |-> <<>>,
      description |-> highestRatedBrew.notes,
      timestamp |-> IF highestRatedBrew.timestamp = 0 THEN t
                    ELSE highestRatedBrew.timestamp]

\* A loop that makes up a bean for every name of the brews, for comparison.
\* C16 does not hold of it.
RECURSIVE WithBrewBeans_all(_, _, _, _, _)
WithBrewBeans_all(beansArray, names, brews, t, random) ==
  IF names = <<>> THEN beansArray
  ELSE WithBrewBeans_all(
         IF Head(names) # ""
         THEN Append(beansArray,
                     BasicBean(Head(names), brews, t,
                               random \o ToString(Len(beansArray))))
         ELSE beansArray,
         Tail(names), brews, t, random)

\* The loop over brewBeanNames: a name that is not empty and that no bean of
\* the array carries gets a basic bean, pushed onto the array.
RECURSIVE WithBrewBeans(_, _, _, _, _)
WithBrewBeans(beansArray, names, brews, t, random) ==
  IF names = <<>> THEN beansArray
  ELSE WithBrewBeans(
         IF /\ Head(names) # ""
            /\ ~\E i \in 1..Len(beansArray) : beansArray[i].name = Head(names)
         THEN Append(beansArray,
                     BasicBean(Head(names), brews, t,
                               random \o ToString(Len(beansArray))))
         ELSE beansArray,
         Tail(names), brews, t, random)

\* A focus of the screen: loadBeans up to the read of the bean document.
loadBeansWithBrews_start ==
  /\ UserEvent
  /\ \E ok \in Outcomes :
       /\ GetItem(BEANS_STORAGE_KEY, ok)
       /\ queue' = Append(queue, Task("loadBeansWithBrews", "beans", ok, "",
                                      storage[BEANS_STORAGE_KEY]))
  /\ UNCHANGED << now, lastAlert, unhandled, beans, newBean, loading,
                  showAddForm, confirmDelete, envApiKey, notBeans, lastWritten >>

\* The catch of loadBeans.
loadBeansWithBrews_failed ==
  /\ queue # <<>> /\ queue[1].op = "loadBeansWithBrews" /\ ~queue[1].ok
  /\ Finish
  /\ lastAlert' = << "Failed to load beans." >>
  /\ UNCHANGED << storage, now, ops, faults, unhandled, beans, newBean,
                  loading, showAddForm, confirmDelete, envApiKey, notBeans,
                  lastWritten >>

\* The bean document was read: the brews document is read.
loadBeansWithBrews_beans ==
  /\ Awaiting("loadBeansWithBrews", "beans") /\ queue[1].ok
  /\ \E ok \in Outcomes :
       /\ GetItem(BREWS_STORAGE_KEY, ok)
       /\ Suspend(Task("loadBeansWithBrews", "brews", ok, "",
                       [storedBeans |-> queue[1].data,
                        storedBrews |-> storage[BREWS_STORAGE_KEY]]))
  /\ UNCHANGED << now, ops, lastAlert, unhandled, beans, newBean, loading,
                  showAddForm, confirmDelete, envApiKey, notBeans, lastWritten >>

\* The brews document was read: without one the beans read are shown as
\* they are; with one the missing beans are made up, the array is sorted
\* and, when it grew, written before it is shown.
loadBeansWithBrews_brews ==
  /\ Awaiting("loadBeansWithBrews", "brews") /\ queue[1].ok
  /\ LET storedBeans == queue[1].data.storedBeans
         storedBrews == queue[1].data.storedBrews
         read == IF storedBeans = None THEN <<>> ELSE JSONParse(storedBeans[1])
     IN IF storedBrews = None
        THEN /\ Finish
             /\ beans' = read
             /\ UNCHANGED << storage, now, faults >>
        ELSE \E t \in Clock, random \in RandomParts :
               LET brews == JSONParse(storedBrews[1])
                   beansArray ==
                     SortDesc(WithBrewBeans(read, BrewBeanNames(brews), brews,
                                            t, random),
                              "timestamp")
               IN /\ now' = t
                  /\ IF /\ beansArray # <<>>
                        /\ \/ storedBeans = None
                           \/ Len(beansArray) > Len(read)
                     THEN /\ beans' = beans
                          /\ \E ok \in Outcomes :
                               /\ SetItem(BEANS_STORAGE_KEY,
                                          JSONStringify(beansArray), ok)
                               /\ Suspend(Task("loadBeansWithBrews", "write",
                                               ok, "", beansArray))
                     ELSE /\ Finish
                          /\ beans' = beansArray
                          /\ UNCHANGED << storage, faults >>
  /\ UNCHANGED << ops, lastAlert, unhandled, newBean, loading, showAddForm,
                  confirmDelete, envApiKey, notBeans, lastWritten >>

\* The grown array was written: it is shown.
loadBeansWithBrews_written ==
  /\ Awaiting("loadBeansWithBrews", "write") /\ queue[1].ok
  /\ Finish
  /\ beans' = queue[1].data
  /\ lastWritten' = [lastWritten EXCEPT ![BEANS_STORAGE_KEY] =
                                          Some(queue[1].data)]
  /\ UNCHANGED << storage, now, ops, faults, lastAlert, unhandled, newBean,
                  loading, showAddForm, confirmDelete, envApiKey, notBeans >>

loadBeansWithBrews ==
  \/ loadBeansWithBrews_start
  \/ loadBeansWithBrews_failed
  \/ loadBeansWithBrews_beans
  \/ loadBeansWithBrews_brews
  \/ loadBeansWithBrews_written

(* ------------------------------------------- new-brew form ([beanId]/brew.tsx) *)
\* user events on the brew screens in one behaviour
MaxBrewOps == 3

\* At most MaxInFlight handlers of these screens are suspended at a time.
MaxInFlight == 2

BrewEvent == Len(queue) < MaxInFlight /\ ops < MaxBrewOps /\ ops' = ops + 1

\* The form after construction: useState defaults; beanName comes from the
\* route params ("" stands for null).
InitialForm ==
  [beanName |-> "", steepTimeSeconds |-> 180, useBloom |-> FALSE,
   bloomTime |-> "", grindSize |-> "", waterTemp |-> "", rating |-> 5,
   notes |-> ""]

\* What the user can have entered when Save is pressed.
BrewForms ==
  { [beanName |-> "Yirgacheffe", steepTimeSeconds |-> 180, useBloom |-> FALSE,
     bloomTime |-> "45", grindSize |-> "Medium", waterTemp |-> "96C",
     rating |-> 8, notes |-> ""],
    [beanName |-> "Huila", steepTimeSeconds |-> 150, useBloom |-> TRUE,
     bloomTime |-> "30", grindSize |-> "Fine", waterTemp |-> "93C",
     rating |-> 6, notes |-> "sour"] }

EditBrewForm ==
  /\ BrewEvent
  /\ \E f \in BrewForms : form' = f
  /\ UNCHANGED << storage, queue, now, faults, lastAlert, unhandled,
                  selectedBrewDevice, selectedGrinder, formBrewDevices,
                  formGrinders, allBrews, filteredBrews, brewsRefreshing,
                  beanNameFilter, saveLog, loaded, notBrew >>

\* The user picks another device in the dropdown.
SelectEquipment ==
  /\ BrewEvent
  /\ \E d \in Ids(formBrewDevices) \ {selectedBrewDevice} :
       selectedBrewDevice' = d
  /\ UNCHANGED << storage, queue, now, faults, lastAlert, unhandled, form,
                  selectedGrinder, formBrewDevices, formGrinders, allBrews,
                  filteredBrews,
                  brewsRefreshing, beanNameFilter, saveLog, loaded, notBrew >>

\* loadEquipment (on mount): four reads one after the other, then the lists
\* and the default selections are set.  task.data collects the values read.
loadEquipment_start ==
  /\ BrewEvent
  /\ \E ok \in Outcomes :
       /\ GetItem(BREW_DEVICES_STORAGE_KEY, ok)
       /\ queue' = Append(queue, Task("loadEquipment", "devices", ok, "",
                                      <<storage[BREW_DEVICES_STORAGE_KEY]>>))
  /\ UNCHANGED << now, lastAlert, unhandled, brewVars, notBrew >>

\* the next key loadEquipment reads after the await pc
NextEquipmentKey(pc) ==
  CASE pc = "devices" -> GRINDERS_STORAGE_KEY
    [] pc = "grinders" -> DEFAULT_BREW_DEVICE_KEY
    [] pc = "defaultDevice" -> DEFAULT_GRINDER_KEY

NextEquipmentPc(pc) ==
  CASE pc = "devices" -> "grinders"
    [] pc = "grinders" -> "defaultDevice"
    [] pc = "defaultDevice" -> "defaultGrinder"

loadEquipment_read ==
  /\ queue # <<>> /\ queue[1].op = "loadEquipment" /\ queue[1].ok
  /\ queue[1].pc \in {"devices", "grinders", "defaultDevice"}
  /\ \E ok \in Outcomes :
       /\ GetItem(NextEquipmentKey(queue[1].pc), ok)
       /\ Suspend(Task("loadEquipment", NextEquipmentPc(queue[1].pc), ok,
                       queue[1].id,
                       Append(queue[1].data,
                              storage[NextEquipmentKey(queue[1].pc)])))
  /\ UNCHANGED << now, ops, lastAlert, unhandled, brewVars, notBrew >>

\* the catch block: the error is logged
loadEquipment_failed ==
  /\ queue # <<>> /\ queue[1].op = "loadEquipment" /\ ~queue[1].ok
  /\ Finish
  /\ UNCHANGED << storage, now, ops, faults, lastAlert, unhandled, brewVars,
                  notBrew >>

\* defaultId && list.some(x => x.id === defaultId)
DefaultStillExists(defaultId, list) ==
  defaultId # None /\ defaultId[1] # "" /\ defaultId[1] \in Ids(list)

loadEquipment_done ==
  /\ Awaiting("loadEquipment", "defaultGrinder") /\ queue[1].ok
  /\ queue[1].id = ""
  /\ Finish
  /\ LET storedDevices == queue[1].data[1]
         storedGrinders == queue[1].data[2]
         defaultDeviceId == queue[1].data[3]
         defaultGrinderId == queue[1].data[4]
         devices == IF storedDevices # None THEN JSONParse(storedDevices[1])
                    ELSE <<>>
         grindersRead == IF storedGrinders # None
                         THEN JSONParse(storedGrinders[1]) ELSE <<>>
     IN /\ formBrewDevices' = IF storedDevices # None THEN devices
                              ELSE formBrewDevices
        /\ formGrinders' = IF storedGrinders # None THEN grindersRead
                           ELSE formGrinders
        /\ selectedBrewDevice' =
             IF DefaultStillExists(defaultDeviceId, devices)
             THEN defaultDeviceId[1] ELSE selectedBrewDevice
        /\ selectedGrinder' =
             IF DefaultStillExists(defaultGrinderId, grindersRead)
             THEN defaultGrinderId[1] ELSE selectedGrinder
  /\ UNCHANGED << storage, now, ops, faults, lastAlert, unhandled, form,
                  allBrews, filteredBrews, brewsRefreshing, beanNameFilter,
                  saveLog, loaded, notBrew >>

loadEquipment ==
  \/ loadEquipment_start
  \/ loadEquipment_read
  \/ loadEquipment_failed
  \/ loadEquipment_done

\* The earlier version of the form (part_008): the same four reads, its
\* tasks marked "earlier".
earlierLoadEquipment_start ==
  /\ BrewEvent
  /\ \E ok \in Outcomes :
       /\ GetItem(BREW_DEVICES_STORAGE_KEY, ok)
       /\ queue' = Append(queue, Task("loadEquipment", "devices", ok,
                                      "earlier",
                                      <<storage[BREW_DEVICES_STORAGE_KEY]>>))
  /\ UNCHANGED << now, lastAlert, unhandled, brewVars, notBrew >>

\* if (defaultDeviceId) of the earlier version
EarlierDefault(defaultId) == defaultId # None /\ defaultId[1] # ""

\* The earlier version after its reads: the lists are set and every default
\* id read is selected.
earlierLoadEquipment_done ==
  /\ Awaiting("loadEquipment", "defaultGrinder") /\ queue[1].ok
  /\ queue[1].id = "earlier"
  /\ Finish
  /\ LET storedDevices == queue[1].data[1]
         storedGrinders == queue[1].data[2]
         defaultDeviceId == queue[1].data[3]
         defaultGrinderId == queue[1].data[4]
     IN /\ formBrewDevices' = IF storedDevices # None
                              THEN JSONParse(storedDevices[1])
                              ELSE formBrewDevices
        /\ formGrinders' = IF storedGrinders # None
                           THEN JSONParse(storedGrinders[1])
                           ELSE formGrinders
        /\ selectedBrewDevice' =
             IF EarlierDefault(defaultDeviceId)
             THEN defaultDeviceId[1] ELSE selectedBrewDevice
        /\ selectedGrinder' =
             IF EarlierDefault(defaultGrinderId)
             THEN defaultGrinderId[1] ELSE selectedGrinder
  /\ UNCHANGED << storage, now, ops, faults, lastAlert, unhandled, form,
                  allBrews, filteredBrews, brewsRefreshing, beanNameFilter,
                  saveLog, loaded, notBrew >>

earlierLoadEquipment ==
  \/ earlierLoadEquipment_start
  \/ loadEquipment_read
  \/ loadEquipment_failed
  \/ earlierLoadEquipment_done

\* The record handleSaveBrew builds from the form at time id/timestamp.
NewBrew(f, device, grinder, id, timestamp) ==
  [id |-> ToString(id), timestamp |-> timestamp, beanName |-> f.beanName,
   steepTime |-> f.steepTimeSeconds, useBloom |-> f.useBloom,
   bloomTime |-> IF f.useBloom THEN Some(f.bloomTime) ELSE None,
   grindSize |-> f.grindSize, waterTemp |-> f.waterTemp,
   rating |-> f.rating, notes |-> f.notes,
   brewDevice |-> OrUndefined(device), grinder |-> OrUndefined(grinder)]

\* handleSaveBrew up to its first await: the record is built, then the
\* brews document is read.
handleSaveBrew_press ==
  /\ BrewEvent
  /\ IF form.beanName = "" \/ form.grindSize = "" \/ form.waterTemp = ""
     THEN /\ lastAlert' = <<"Missing Info">>
          /\ UNCHANGED << storage, queue, now, faults >>
     ELSE /\ lastAlert' = lastAlert
          /\ \E t \in Clock, t2 \in Clock, ok \in Outcomes :
               /\ t <= t2
               /\ now' = t2
               /\ GetItem(BREWS_STORAGE_KEY, ok)
               /\ queue' = Append(queue,
                    Task("handleSaveBrew", "read", ok, "",
                         [newBrew |-> NewBrew(form, selectedBrewDevice,
                                              selectedGrinder, t, t2),
                          storedBrews |-> storage[BREWS_STORAGE_KEY],
                          readAt |-> Len(saveLog),
                          form |-> form,
                          brewDevice |-> selectedBrewDevice,
                          grinder |-> selectedGrinder]))
  /\ UNCHANGED << unhandled, brewVars, notBrew >>

\* A save without the race, for comparison: the document is read at the
\* moment of the write.  C3 does not hold of it.
ExistingBrews_atWrite(task) ==
  IF storage[BREWS_STORAGE_KEY] # None
  THEN JSONParse(storage[BREWS_STORAGE_KEY][1]) ELSE <<>>

\* storedBrews ? JSON.parse(storedBrews) : [] on the value the task read
ExistingBrews(task) ==
  IF task.data.storedBrews # None THEN JSONParse(task.data.storedBrews[1])
  ELSE <<>>

\* after the read: the record is appended to what was read and the whole
\* array is written
handleSaveBrew_read ==
  /\ Awaiting("handleSaveBrew", "read")
  /\ LET task == queue[1]
         updatedBrews == Append(ExistingBrews(task), task.data.newBrew)
     IN IF ~task.ok
        THEN /\ lastAlert' = <<"Could not save the brew.">>
             /\ Finish
             /\ UNCHANGED << storage, faults, saveLog >>
        ELSE /\ lastAlert' = lastAlert
             /\ \E ok \in Outcomes :
                  /\ SetItem(BREWS_STORAGE_KEY, JSONStringify(updatedBrews), ok)
                  /\ Suspend([task EXCEPT !.pc = "write", !.ok = ok])
                  /\ saveLog' =
                       IF ok
                       THEN Append(saveLog,
                              [read |-> task.data.storedBrews,
                               before |-> storage[BREWS_STORAGE_KEY],
                               readAt |-> task.data.readAt,
                               newBrew |-> task.data.newBrew,
                               form |-> task.data.form,
                               brewDevice |-> task.data.brewDevice,
                               grinder |-> task.data.grinder,
                               written |-> JSONStringify(updatedBrews)])
                       ELSE saveLog
  /\ UNCHANGED << now, ops, unhandled, form, selectedBrewDevice,
                  selectedGrinder, formBrewDevices, formGrinders, allBrews,
                  filteredBrews, brewsRefreshing, beanNameFilter, loaded,
                  notBrew >>

\* A save that leaves the form as it is, for comparison.  C28 does not hold
\* of it.
FormReset_kept(f) == f

\* The setters after the write: all fields but the bean name.
FormReset(f) ==
  [f EXCEPT !.steepTimeSeconds = 180, !.useBloom = FALSE, !.bloomTime = "",
            !.grindSize = "", !.waterTemp = "", !.rating = 5, !.notes = ""]

\* after the write: the form is reset and success is reported
handleSaveBrew_written ==
  /\ Awaiting("handleSaveBrew", "write")
  /\ Finish
  /\ IF queue[1].ok
     THEN /\ form' = FormReset(form)
          /\ lastAlert' = <<"Brew saved for " \o queue[1].data.form.beanName \o "!">>
     ELSE /\ form' = form
          /\ lastAlert' = <<"Could not save the brew.">>
  /\ UNCHANGED << storage, now, ops, faults, unhandled, selectedBrewDevice,
                  selectedGrinder, formBrewDevices, formGrinders, allBrews,
                  filteredBrews, brewsRefreshing, beanNameFilter, saveLog,
                  loaded, notBrew >>

handleSaveBrew ==
  handleSaveBrew_press \/ handleSaveBrew_read \/ handleSaveBrew_written

(* --------------------------------------------- brew list ([beanId]/brews.tsx) *)
\* parsedBrews.map(brew => ({...brew, beanName: brew.beanName || 'Unnamed Bean'}))
FixBeanName(brew) ==
  [f \in DOMAIN brew \cup {"beanName"} |->
     IF f = "beanName"
     THEN IF "beanName" \notin DOMAIN brew \/ brew.beanName = ""
          THEN "Unnamed Bean" ELSE brew.beanName
     ELSE brew[f]]

FixedBrews(parsedBrews) ==
  [i \in 1..Len(parsedBrews) |-> FixBeanName(parsedBrews[i])]

\* applyFilter: filter() makes a new array only when a filter is set; sort()
\* sorts the array it is given in place.
ApplyFilter(brewsToFilter) ==
  SortDesc(IF beanNameFilter # ""
           THEN SelectSeq(brewsToFilter, LAMBDA b : b.beanName = beanNameFilter)
           ELSE brewsToFilter,
           "timestamp")

\* A list that keeps only the filtered brews, for comparison.  C4 does not
\* hold of it.
AllBrewsAfterFilter_filtered(fixedBrews) == ApplyFilter(fixedBrews)

\* allBrews after setAllBrews(fixedBrews); applyFilter(fixedBrews): the same
\* array, sorted in place when no filter made a copy of it.
AllBrewsAfterFilter(fixedBrews) ==
  IF beanNameFilter = "" THEN ApplyFilter(fixedBrews) ELSE fixedBrews

loadBrews_start ==
  /\ BrewEvent
  /\ brewsRefreshing' = TRUE
  /\ \E ok \in Outcomes :
       /\ GetItem(BREWS_STORAGE_KEY, ok)
       /\ queue' = Append(queue, Task("loadBrews", "read", ok, "",
                                      storage[BREWS_STORAGE_KEY]))
  /\ UNCHANGED << now, lastAlert, unhandled, form, selectedBrewDevice,
                  selectedGrinder, formBrewDevices, formGrinders, allBrews,
                  filteredBrews, beanNameFilter, saveLog, loaded, notBrew >>

\* A catch that leaves the lists as they are, for comparison.  C21 does not
\* hold of it.
CaughtBrews_kept(current) == current

\* setAllBrews([]) and setFilteredBrews([]) of the catch.
CaughtBrews(current) == <<>>

\* loadBrews after the read: the parsed brews are listed; without a document
\* the lists are emptied, and so they are by the catch when the read was
\* rejected or the document does not parse.  finally: refreshing is off.
loadBrews_done ==
  /\ Awaiting("loadBrews", "read")
  /\ Finish
  /\ brewsRefreshing' = FALSE
  /\ IF ~queue[1].ok \/ (queue[1].data # None /\ JSONParseThrows(queue[1].data[1]))
     THEN /\ allBrews' = CaughtBrews(allBrews)
          /\ filteredBrews' = CaughtBrews(filteredBrews)
     ELSE IF queue[1].data # None
     THEN LET fixedBrews == FixedBrews(JSONParse(queue[1].data[1]))
          IN /\ allBrews' = AllBrewsAfterFilter(fixedBrews)
             /\ filteredBrews' = ApplyFilter(fixedBrews)
     ELSE allBrews' = <<>> /\ filteredBrews' = <<>>
  /\ loaded' = IF queue[1].ok THEN Some(queue[1].data) ELSE None
  /\ UNCHANGED << storage, now, ops, faults, lastAlert, unhandled, form,
                  selectedBrewDevice, selectedGrinder, formBrewDevices,
                  formGrinders, beanNameFilter, saveLog, notBrew >>

loadBrews == loadBrews_start \/ loadBrews_done

(* --------------------------------- brew details modal ([beanId]/brews.tsx) *)
\* The texts of the modal are sequences; the suggestion that
\* getBrewSuggestions computes for a brew is named by the brew's id.
SuggestionFor(brew) == << "suggestion for", brew.id >>

ErrorGettingSuggestion ==
  << "Error getting suggestion. Please try again later." >>

notDetails ==
  << storage, queue, now, faults, lastAlert, unhandled, envApiKey,
     lastWritten, settingsVars, beansVars, brewVars, openaiVars, modalVars,
     promptVars, routeVars, timerVars >>

\* handleBrewPress(brew) of a listed brew, which the open modal covers:
\* fetchSuggestion up to its await of getBrewSuggestions.
fetchSuggestion_press ==
  /\ UserEvent
  /\ ~detailsVisible
  /\ \E i \in 1..Len(filteredBrews) :
       /\ selectedBrew' = Some(filteredBrews[i])
       /\ fetches' = Append(fetches, filteredBrews[i])
  /\ suggestion' = <<>>
  /\ detailsVisible' = TRUE
  /\ loadingSuggestion' = TRUE
  /\ UNCHANGED notDetails

\* A getBrewSuggestions call returns or throws, in any order with the other
\* calls: the suggestion or the error text is set, then loading is off.
fetchSuggestion_returned ==
  /\ \E i \in 1..Len(fetches), ok \in BOOLEAN :
       /\ suggestion' = IF ok THEN SuggestionFor(fetches[i])
                        ELSE ErrorGettingSuggestion
       /\ fetches' = SubSeq(fetches, 1, i - 1) \o
                     SubSeq(fetches, i + 1, Len(fetches))
  /\ loadingSuggestion' = FALSE
  /\ UNCHANGED << ops, selectedBrew, detailsVisible >>
  /\ UNCHANGED notDetails

\* The Close button and onRequestClose of the modal.
closeDetails ==
  /\ UserEvent
  /\ detailsVisible
  /\ detailsVisible' = FALSE
  /\ UNCHANGED << selectedBrew, suggestion, loadingSuggestion, fetches >>
  /\ UNCHANGED notDetails

fetchSuggestion == fetchSuggestion_press \/ fetchSuggestion_returned

(* ------------------------------------------------ response text (lib/openai) *)
\* A text is a sequence of characters.  The characters that matter to the
\* parsing are named: the double quote, the backslash, the newline ("NL").
\* A key name, a JSON literal (null, true, false) or a number stands for its
\* run of letters or digits as one element; no text puts two numbers side by
\* side.
Quote == "QUOTE"

Backslash == "BACKSLASH"

Numbers == {"180", "30"}

NumberValue(c) == IF c = "180" THEN 180 ELSE 30

\* The interface BrewSuggestionResponse: the six fields in declared order.
SuggestionFields ==
  << "suggestionText", "suggestedGrindSize", "suggestedWaterTemp",
     "suggestedSteepTimeSeconds", "suggestedUseBloom",
     "suggestedBloomTimeSeconds" >>

\* JSON values: <<"string", text>>, <<"number", n>>, <<"boolean", b>>,
\* <<"null">>, <<"object", [key -> value]>>.
Str(text) == << "string", text >>

Num(n) == << "number", n >>

Bool(b) == << "boolean", b >>

Null == << "null" >>

Obj(f) == << "object", f >>

IsString(v) == v[1] = "string"

\* What a parsing step gives back: the value and the rest of the text, or a
\* SyntaxError.
Parsed(value, rest) == [ok |-> TRUE, value |-> value, rest |-> rest]

SyntaxError == [ok |-> FALSE, value |-> Null, rest |-> <<>>]

\* The character an escape sequence \c stands for.
Unescape(c) == IF c = "n" THEN "NL" ELSE c

\* The number of backslashes right before position i of s.
BackslashesBefore(s, i) ==
  LET runs == {j \in 1..i : \A k \in j..(i - 1) : s[k] = Backslash}
  IN i - (CHOOSE j \in runs : \A k \in runs : j <= k)

\* Position i of s holds a backslash that begins an escape sequence.
EscapeStart(s, i) ==
  s[i] = Backslash /\ BackslashesBefore(s, i) % 2 = 0

\* The characters of a JSON string after its opening quote: up to the first
\* quote that is not escaped; a raw newline and an unknown escape are errors.
ParseChars(s) ==
  LET closing == {i \in 1..Len(s) :
                    s[i] = Quote /\ BackslashesBefore(s, i) % 2 = 0}
      end == CHOOSE i \in closing : \A j \in closing : i <= j
      body == SubSeq(s, 1, end - 1)
      kept == SelectSeq([i \in 1..Len(body) |-> i],
                        LAMBDA i : ~EscapeStart(body, i))
  IN IF closing = {} THEN SyntaxError
     ELSE IF \E i \in 1..Len(body) :
               \/ body[i] = "NL"
               \/ /\ EscapeStart(body, i)
                  /\ (i = Len(body) \/ body[i + 1] \notin {Quote, Backslash, "n"})
          THEN SyntaxError
     ELSE Parsed([k \in 1..Len(kept) |->
                    IF kept[k] > 1 /\ EscapeStart(body, kept[k] - 1)
                    THEN Unescape(body[kept[k]]) ELSE body[kept[k]]],
                 SubSeq(s, end + 1, Len(s)))

\* obj with key set to value (a repeated key overwrites)
WithMember(obj, key, value) ==
  [k \in (DOMAIN obj) \cup {key} |-> IF k = key THEN value ELSE obj[k]]

RECURSIVE ParseValue(_)
RECURSIVE ParseMembers(_, _)
\* The members of an object from a member's opening quote on.
ParseMembers(s, obj) ==
  IF s = <<>> \/ s[1] # Quote THEN SyntaxError
  ELSE LET key == ParseChars(Tail(s))
           afterKey == TrimStart(key.rest)
       IN IF ~key.ok \/ afterKey = <<>> \/ afterKey[1] # ":" THEN SyntaxError
          ELSE LET member == ParseValue(TrimStart(Tail(afterKey)))
                   after == TrimStart(member.rest)
                   updated == WithMember(obj, key.value, member.value)
               IN IF ~member.ok \/ after = <<>> THEN SyntaxError
                  ELSE IF after[1] = "}" THEN Parsed(Obj(updated), Tail(after))
                  ELSE IF after[1] = ","
                       THEN ParseMembers(TrimStart(Tail(after)), updated)
                  ELSE SyntaxError

\* One JSON value at the start of s (no leading whitespace).
ParseValue(s) ==
  IF s = <<>> THEN SyntaxError
  ELSE IF s[1] = Quote
       THEN LET chars == ParseChars(Tail(s))
            IN IF chars.ok THEN Parsed(Str(chars.value), chars.rest)
               ELSE SyntaxError
  ELSE IF s[1] = "null" THEN Parsed(Null, Tail(s))
  ELSE IF s[1] \in {"true", "false"} THEN Parsed(Bool(s[1] = "true"), Tail(s))
  ELSE IF s[1] \in Numbers THEN Parsed(Num(NumberValue(s[1])), Tail(s))
  ELSE IF s[1] = "{"
       THEN LET inner == TrimStart(Tail(s))
            IN IF inner # <<>> /\ inner[1] = "}"
               THEN Parsed(Obj(<<>>), Tail(inner))
               ELSE ParseMembers(inner, <<>>)
  ELSE SyntaxError

\* JSON.parse(text): one value with whitespace around it and nothing else.
JSONParseText(text) ==
  LET value == ParseValue(TrimStart(text))
  IN IF value.ok /\ TrimStart(value.rest) = <<>> THEN value ELSE SyntaxError

(* -------------------------------------------- response handling (lib/openai) *)
StartsWith(s, p) == Len(s) >= Len(p) /\ SubSeq(s, 1, Len(p)) = p

EndsWith(s, p) ==
  Len(s) >= Len(p) /\ SubSeq(s, Len(s) - Len(p) + 1, Len(s)) = p

\* p occurs in s from position i on
OccursAt(s, p, i) ==
  i + Len(p) - 1 <= Len(s) /\ SubSeq(s, i, i + Len(p) - 1) = p

\* s.lastIndexOf(p), counting positions from 1: 0 when p does not occur
LastIndexOf(s, p) ==
  LET hits == {i \in 1..Len(s) : OccursAt(s, p, i)}
  IN IF hits = {} THEN 0 ELSE CHOOSE i \in hits : \A j \in hits : j <= i

\* ',"suggestedGrindSize":'
ParameterMarker == << ",", Quote, "suggestedGrindSize", Quote, ":" >>

\* '{"suggestedGrindSize":'
OnlyParameters == << "{", Quote, "suggestedGrindSize", Quote, ":" >>

NarrativeMissing ==
  << "Suggestion parameters received, but narrative text missing in response." >>

\* A cleaning that trims every narrative, for comparison.  C5 does not hold
\* of it.
CleanedText_trimmed(suggestionText) == Trim(suggestionText)

\* BEGIN CLEANING .. END CLEANING on parsedResponse.suggestionText
CleanedText(suggestionText) ==
  LET jsonStartIndex == LastIndexOf(suggestionText, ParameterMarker)
      potentialEnd ==
        Trim(SubSeq(suggestionText, jsonStartIndex, Len(suggestionText)))
      withoutParameters ==
        IF jsonStartIndex # 0 /\ EndsWith(potentialEnd, << "}" >>)
        THEN Trim(SubSeq(suggestionText, 1, jsonStartIndex - 1))
        ELSE suggestionText
  IN IF StartsWith(Trim(withoutParameters), OnlyParameters)
     THEN NarrativeMissing ELSE withoutParameters

\* What a suggestion call gives its caller: a value, or an Error.
Returned(value) == [outcome |-> "returned", value |-> value, error |-> ""]

Thrown(message) == [outcome |-> "thrown", value |-> Null, error |-> message]

\* the characters of s before the first c
UpTo(s, c) ==
  LET hits == {i \in 1..Len(s) : s[i] = c}
  IN IF hits = {} THEN s
     ELSE SubSeq(s, 1, (CHOOSE i \in hits : \A j \in hits : i <= j) - 1)

\* '"suggestionText":'
SuggestionTextKey == << Quote, "suggestionText", Quote, ":" >>

\* /"suggestionText":\s*"([^"]*)"/ tried at position i: the captured group
MatchAt(s, i) ==
  IF ~OccursAt(s, SuggestionTextKey, i) THEN None
  ELSE LET afterSpace ==
             TrimStart(SubSeq(s, i + Len(SuggestionTextKey), Len(s)))
       IN IF /\ afterSpace # <<>>
             /\ afterSpace[1] = Quote
             /\ Quote \in Range(Tail(afterSpace))
          THEN Some(UpTo(Tail(afterSpace), Quote))
          ELSE None

\* A match that takes the rightmost occurrence, for comparison.  C7 does not
\* hold of it.
TextMatch_last(s) ==
  LET hits == {i \in 1..Len(s) : MatchAt(s, i) # None}
  IN IF hits = {} THEN None
     ELSE MatchAt(s, CHOOSE i \in hits : \A j \in hits : j <= i)

\* messageContent.match(...): the leftmost match
TextMatch(s) ==
  LET hits == {i \in 1..Len(s) : MatchAt(s, i) # None}
  IN IF hits = {} THEN None
     ELSE MatchAt(s, CHOOSE i \in hits : \A j \in hits : i <= j)

\* text.replace(/\n/g, '\n'): every newline is replaced by a newline
ReplaceNewlines(text) ==
  [i \in 1..Len(text) |-> IF text[i] = "NL" THEN "NL" ELSE text[i]]

\* the default structure with only the extracted text
FallbackObject(text) ==
  [k \in {<< SuggestionFields[i] >> : i \in 1..Len(SuggestionFields)} |->
     IF k = << "suggestionText" >> THEN Str(text)
     ELSE IF k = << "suggestedUseBloom" >> THEN Bool(FALSE)
     ELSE Null]

\* A fallback that returns a result without a narrative instead of
\* throwing, for comparison.  C8 does not hold of it.
Fallback_partial(content) ==
  LET textMatch == TextMatch(content)
  IN Returned(Obj(FallbackObject(IF textMatch # None THEN textMatch[1]
                                 ELSE <<>>)))

\* the catch (parseError) block
Fallback(content) ==
  LET textMatch == TextMatch(content)
  IN IF textMatch # None /\ textMatch[1] # <<>>
     THEN Returned(Obj(FallbackObject(ReplaceNewlines(textMatch[1]))))
     ELSE Thrown("Failed to parse or extract suggestion from OpenAI response.")

\* parsedResponse.suggestionText.lastIndexOf(...) does not throw a TypeError:
\* the parsed value is an object whose suggestionText is a string
HasNarrative(value) ==
  /\ value[1] = "object"
  /\ << "suggestionText" >> \in DOMAIN value[2]
  /\ IsString(value[2][<< "suggestionText" >>])

\* From `const messageContent = ...' to the end of the inner try/catch;
\* content is None when the response carries no message content.
HandleResponse(content) ==
  IF content = None \/ content[1] = <<>>
  THEN Thrown("Failed to get valid response from OpenAI API.")
  ELSE LET parsed == JSONParseText(content[1])
       IN IF parsed.ok /\ HasNarrative(parsed.value)
          THEN LET parsedResponse == parsed.value[2]
                   text == parsedResponse[<< "suggestionText" >>][2]
               IN Returned(Obj([parsedResponse EXCEPT
                      ![<< "suggestionText" >>] = Str(CleanedText(text))]))
          ELSE Fallback(content[1])

(* ------------------------------------- responses of the completion endpoint *)
\* The text of a string value: quote, backslash and newline are escaped.
EscapeChar(c) ==
  IF c = "NL" THEN << Backslash, "n" >>
  ELSE IF c \in {Quote, Backslash} THEN << Backslash, c >>
  ELSE << c >>

RECURSIVE Escape(_)
Escape(text) ==
  IF text = <<>> THEN <<>>
  ELSE IF Len(text) = 1 THEN EscapeChar(text[1])
  ELSE Escape(SubSeq(text, 1, Len(text) \div 2))
         \o Escape(SubSeq(text, Len(text) \div 2 + 1, Len(text)))

\* The text of a value that is not an object.
SerializeValue(v) ==
  CASE v[1] = "string" -> << Quote >> \o Escape(v[2]) \o << Quote >>
    [] v[1] = "number" -> << IF v[2] = 180 THEN "180" ELSE "30" >>
    [] v[1] = "boolean" -> << IF v[2] THEN "true" ELSE "false" >>
    [] OTHER -> << "null" >>

\* The members of obj named by keys, in that order; gap is the whitespace
\* written after a colon and a comma.
RECURSIVE SerializeMembers(_, _, _)
SerializeMembers(keys, obj, gap) ==
  IF keys = <<>> THEN <<>>
  ELSE IF << keys[1] >> \notin DOMAIN obj
       THEN SerializeMembers(Tail(keys), obj, gap)
  ELSE LET rest == SerializeMembers(Tail(keys), obj, gap)
       IN << Quote, keys[1], Quote, ":" >> \o gap
            \o SerializeValue(obj[<< keys[1] >>])
            \o (IF rest = <<>> THEN <<>> ELSE << "," >> \o gap \o rest)

\* The response the prompt asks for: one JSON object with the six members.
SerializeObject(obj, gap) ==
  << "{" >> \o SerializeMembers(SuggestionFields, obj, gap) \o << "}" >>

\* The five structured parameters a response can carry: all set, all null,
\* missing, or of other types than the interface declares.
ParameterSets ==
  { [k \in {<< SuggestionFields[i] >> : i \in 2..6} |->
       CASE k = << "suggestedGrindSize" >> -> Str(<< "Fine" >>)
         [] k = << "suggestedWaterTemp" >> -> Str(<< "96C" >>)
         [] k = << "suggestedSteepTimeSeconds" >> -> Num(180)
         [] k = << "suggestedUseBloom" >> -> Bool(TRUE)
         [] OTHER -> Num(30)],
    [k \in {<< SuggestionFields[i] >> : i \in 2..6} |->
       IF k = << "suggestedUseBloom" >> THEN Bool(FALSE) ELSE Null],
    [k \in {<< SuggestionFields[i] >> : i \in 2..6} |->
       IF k = << "suggestedUseBloom" >> THEN Null ELSE Num(30)],
    << >> }

\* The parameter JSON a model echoes into its narrative: the object of the
\* five parameters, or the tail of the whole object after the narrative.
BraceForm(parameters, gap) == SerializeObject(parameters, gap)

CommaForm(parameters) ==
  << "," >> \o SerializeMembers(SuggestionFields, parameters, <<>>) \o << "}" >>

Advice == << "Grind", " ", "finer", "." >>

\* Narratives without and with echoed parameters.
Narratives(parameters) ==
  { Advice,
    <<>>,
    Advice \o << " " >>,
    << "Say", " ", Quote, "finer", Quote >>,
    << "Grind", "NL", "finer" >>,
    << "Set", " ", Quote, "suggestedGrindSize", Quote >>,
    Advice \o << " " >> \o BraceForm(parameters, <<>>),
    Advice \o << "NL" >> \o BraceForm(parameters, << " " >>),
    Advice \o CommaForm(parameters),
    << " " >> \o Advice \o << " " >> \o CommaForm(parameters) \o << " " >>,
    BraceForm(parameters, <<>>),
    Advice \o ParameterMarker \o << "Fine" >>,
    ParameterMarker \o << "}" >> }

\* The suggestionText member of a response: a narrative, a value that is no
\* string, or no member at all.
WithNarrative(parameters) ==
  { WithMember(parameters, << "suggestionText" >>, Str(n)) :
      n \in Narratives(parameters) }
  \cup { WithMember(parameters, << "suggestionText" >>, Null),
         WithMember(parameters, << "suggestionText" >>, Num(30)),
         parameters }

ResponseObjects == UNION { WithNarrative(p) : p \in ParameterSets }

\* A response: its text and, when the text is the JSON of an object, that
\* object.
Response(text, object) == [text |-> Some(text), object |-> object]

WellFormedResponses ==
  { Response(SerializeObject(o, gap), Some(o)) :
      o \in ResponseObjects, gap \in {<<>>, << " " >>} }

\* Responses cut off by the token limit.
Truncated(text) == { SubSeq(text, 1, n) : n \in 1..(Len(text) - 1) }

TruncatedResponses ==
  { Response(t, None) :
      t \in UNION { Truncated(SerializeObject(
                                WithMember(p, << "suggestionText" >>, v),
                                << " " >>)) :
                      p \in ParameterSets,
                      v \in { Str(Advice), Str(<<>>), Null,
                              Str(<< "Say", " ", Quote, "finer", Quote >>) } } }

\* Responses that are no object, or have prose around the object.
OtherResponses ==
  { Response(t, None) :
      t \in { << "null" >>, << "180" >>, << Quote, "Grind", Quote >>,
              << "Sorry" >>, << " " >>,
              << "{", "}" >>,
              << "{", Quote, "suggestions", Quote, ":" >>
                \o SerializeObject(
                     WithMember(<<>>, << "suggestionText" >>, Str(Advice)),
                     <<>>)
                \o << "}" >> } }
  \cup { Response(<< "Here", ":", " " >> \o SerializeObject(o, << " " >>), None) :
           o \in ResponseObjects }
  \cup { Response(SerializeObject(o, << " " >>) \o << " ", "Enjoy" >>, None) :
           o \in ResponseObjects }
  \cup { Response(<< "{", Quote, "suggestionText", Quote, ":", Quote, Quote,
                     ",", Quote, "suggestionText", Quote, ":", "NL", Quote >>
                    \o Advice \o << Quote >>, None),
         Response(<< Quote, "suggestionText", Quote, ":", " ", Quote >>
                    \o Advice \o << Quote, " ", Quote, "suggestionText",
                                    Quote, ":", Quote, "Coarser", Quote >>,
                  None),
         [text |-> Some(<<>>), object |-> None],
         [text |-> None, object |-> None] }

Responses == WellFormedResponses \cup TruncatedResponses \cup OtherResponses

(* ------------------------------------------- image analysis (lib/openai) *)
\* messageContent.match(/\{[\s\S]*\}/): from the first opening brace to the
\* last closing brace after it; None when there is no such pair.
JsonMatch(content) ==
  LET opens == {i \in 1..Len(content) : content[i] = "{"}
      closes == {j \in 1..Len(content) : content[j] = "}"}
      first == CHOOSE i \in opens : \A k \in opens : i <= k
      last == CHOOSE j \in closes : \A k \in closes : k <= j
  IN IF opens # {} /\ closes # {} /\ first < last
     THEN Some(SubSeq(content, first, last)) ELSE None

\* analyzeImage after the response: the matched block, or the whole content
\* when nothing matches, is parsed; content is None for a response without
\* message content.
AnalyzeResponse(content) ==
  IF content = None \/ content[1] = <<>>
  THEN Thrown("No content returned from OpenAI")
  ELSE LET jsonMatch == JsonMatch(content[1])
           jsonString == IF jsonMatch # None THEN jsonMatch[1] ELSE content[1]
           parsed == JSONParseText(jsonString)
       IN IF parsed.ok THEN Returned(parsed.value)
          ELSE Thrown("Failed to parse image analysis data.")

\* '"name"': a quoted word
Quoted(word) == << Quote, word, Quote >>

\* '{"name":"Huila"}'
BeanObject ==
  << "{" >> \o Quoted("name") \o << ":" >> \o Quoted("Huila") \o << "}" >>

\* '{"roastLevel":"Light"}'
RoastObject ==
  << "{" >> \o Quoted("roastLevel") \o << ":" >> \o Quoted("Light") \o << "}" >>

\* The message contents the vision model is taken to answer with: the object
\* alone, with text around it, fenced, nested, with a brace inside a string,
\* with braces in the text after or before it, two objects, cut off, without
\* an object, empty, absent.  "FENCE" stands for the three backquotes of a
\* code fence.
ImageResponses ==
  { Some(BeanObject),
    Some(<< "Here", " " >> \o BeanObject \o << "NL", "Enjoy" >>),
    Some(<< "FENCE", "json", "NL" >> \o BeanObject \o << "NL", "FENCE" >>),
    Some(<< "{" >> \o Quoted("bean") \o << ":" >> \o BeanObject \o << "}" >>),
    Some(<< "{" >> \o Quoted("description") \o
         << ":", Quote, "a", "}", "b", Quote, "}" >>),
    Some(BeanObject \o << " ", "{", "see", "label", "}" >>),
    Some(<< "{", "label", "}", " " >> \o BeanObject),
    Some(BeanObject \o << "NL" >> \o RoastObject),
    Some(<< "{" >> \o Quoted("name") \o << ":", Quote, "Hui" >>),
    Some(<< "Unknown" >>),
    Some(<< "null" >>),
    Some(<<>>),
    None }

(* ------------------------------------------------ suggestion calls (lib/openai) *)
\* calls of lib/openai in one behaviour
MaxCalls == 2

\* A call of op is made from another screen before the suggestion modal,
\* which covers it, is opened, or by getOptimalBrewSuggestions, which awaits
\* the one call it made.
CallEvent(op) ==
  /\ \/ selectedBeanForSuggestion = None
     \/ /\ callEvents = <<>>
        /\ op = IF optimalPc = "history" THEN "getBrewSuggestions"
                ELSE "generateGenericBrewSuggestion"
  /\ ops < MaxCalls /\ ops' = ops + 1

\* The events of a call, kept as history: "resolve" when makeOpenAICall asks
\* getApiKeyInternal for the key, "request" when callFunction(client) sends
\* the request, "thrown" or "returned" when the call settles.
Count(events, e) == Cardinality({i \in 1..Len(events) : events[i] = e})

\* A check that lets every resolution pass, for comparison.  C11 does not
\* hold of it.
KeyFound_always(apiKey) == TRUE

\* makeOpenAICall, `if (!apiKey)`: the resolution returned a key.
KeyFound(apiKey) == apiKey # None

MissingKey == "OpenAI API key not found. Please set it in the settings."

\* The promise of op is fulfilled or rejected with result.
Settled(op, result) ==
  /\ IF op = "analyzeImage"
     THEN imageResult' = Some(result) /\ suggestionResult' = suggestionResult
     ELSE suggestionResult' = Some(result) /\ imageResult' = imageResult
  /\ callEvents' = callEvents \o << result.outcome >>

\* A call begins: the outcomes of the call before it are gone.
Begun ==
  /\ suggestionResult' = None
  /\ messageContent' = None
  /\ responseObject' = None
  /\ imageResult' = None
  /\ imageContent' = None
  /\ keyReadFailed' = FALSE

\* A call that begins with makeOpenAICall, up to the await of
\* getApiKeyInternal: the environment value is returned at once and
\* callFunction(client) sends the request, otherwise the stored key is read.
\* The calls share no state, so they are followed one at a time.
StartCall(op) ==
  /\ CallEvent(op)
  /\ suggestionCall = None /\ queue = <<>>
  /\ Begun
  /\ IF EnvUsable(envApiKey)
     THEN /\ suggestionCall' = Some(op)
          /\ callEvents' = << "resolve", "request" >>
          /\ UNCHANGED << storage, queue, faults >>
     ELSE /\ suggestionCall' = None
          /\ callEvents' = << "resolve" >>
          /\ \E ok \in Outcomes :
               /\ GetItem(API_KEY_STORAGE_KEY, ok)
               /\ queue' = Append(queue, Task(op, "apiKey", ok, "",
                                              storage[API_KEY_STORAGE_KEY]))
  /\ UNCHANGED << now, lastAlert, unhandled, envApiKey, apiKeyResult,
                  notOpenai >>

\* makeOpenAICall after the key was read: without a key it throws and the
\* caller throws on, with one callFunction(client) sends the request.
KeyRead(op) ==
  /\ Awaiting(op, "apiKey")
  /\ Finish
  /\ keyReadFailed' = ~queue[1].ok
  /\ IF KeyFound(StoredKeyResult(queue[1].data, queue[1].ok))
     THEN /\ suggestionCall' = Some(op)
          /\ callEvents' = callEvents \o << "request" >>
          /\ UNCHANGED << suggestionResult, imageResult >>
     ELSE /\ suggestionCall' = None
          /\ Settled(op, Thrown(MissingKey))
  /\ UNCHANGED << storage, now, ops, faults, lastAlert, unhandled, envApiKey,
                  messageContent, responseObject, apiKeyResult, imageContent,
                  notOpenai >>

\* A wrapper that sends a failed request once more, for comparison.  C12
\* does not hold of it.
RequestFailed_retried(op) ==
  /\ suggestionCall = Some(op)
  /\ IF Count(callEvents, "request") < 2
     THEN /\ callEvents' = callEvents \o << "request" >>
          /\ UNCHANGED << suggestionCall, suggestionResult, imageResult >>
     ELSE /\ suggestionCall' = None
          /\ Settled(op, Thrown("Connection error."))
  /\ UNCHANGED << storage, queue, now, ops, faults, lastAlert, unhandled,
                  envApiKey, messageContent, responseObject, apiKeyResult,
                  keyReadFailed, imageContent, notOpenai >>

\* The request fails (network, timeout): makeOpenAICall throws the error on
\* and so does its caller.
RequestFailed(op) ==
  /\ suggestionCall = Some(op)
  /\ suggestionCall' = None
  /\ Settled(op, Thrown("Connection error."))
  /\ UNCHANGED << storage, queue, now, ops, faults, lastAlert, unhandled,
                  envApiKey, messageContent, responseObject, apiKeyResult,
                  keyReadFailed, imageContent, notOpenai >>

\* The response arrives and is handled.
ResponseHandled(op) ==
  /\ suggestionCall = Some(op)
  /\ suggestionCall' = None
  /\ \E r \in Responses :
       /\ messageContent' = r.text
       /\ responseObject' = r.object
       /\ Settled(op, HandleResponse(r.text))
  /\ UNCHANGED << storage, queue, now, ops, faults, lastAlert, unhandled,
                  envApiKey, apiKeyResult, keyReadFailed, imageContent,
                  notOpenai >>

\* getBrewSuggestions up to its first await: the stored devices are read.
getBrewSuggestions_start ==
  /\ CallEvent("getBrewSuggestions")
  /\ suggestionCall = None /\ queue = <<>>
  /\ Begun
  /\ callEvents' = <<>>
  /\ \E ok \in Outcomes :
       /\ GetItem(BREW_DEVICES_STORAGE_KEY, ok)
       /\ queue' = Append(queue, Task("getBrewSuggestions", "devices", ok, "",
                                      storage[BREW_DEVICES_STORAGE_KEY]))
  /\ UNCHANGED << now, lastAlert, unhandled, envApiKey, suggestionCall,
                  apiKeyResult, notOpenai >>

\* then the stored grinders are read
getBrewSuggestions_devices ==
  /\ Awaiting("getBrewSuggestions", "devices") /\ queue[1].ok
  /\ \E ok \in Outcomes :
       /\ GetItem(GRINDERS_STORAGE_KEY, ok)
       /\ Suspend(Task("getBrewSuggestions", "grinders", ok, "",
                       storage[GRINDERS_STORAGE_KEY]))
  /\ UNCHANGED << now, ops, lastAlert, unhandled, envApiKey, suggestionCall,
                  messageContent, suggestionResult, responseObject,
                  apiKeyResult, keyReadFailed, imageContent, imageResult,
                  callEvents, notOpenai >>

\* a rejected read is logged by the outer catch and thrown on
getBrewSuggestions_readFailed ==
  /\ queue # <<>> /\ queue[1].op = "getBrewSuggestions"
  /\ queue[1].pc \in {"devices", "grinders"} /\ ~queue[1].ok
  /\ Finish
  /\ Settled("getBrewSuggestions", Thrown("AsyncStorage error"))
  /\ UNCHANGED << storage, now, ops, faults, lastAlert, unhandled, envApiKey,
                  suggestionCall, messageContent, responseObject,
                  apiKeyResult, keyReadFailed, imageContent, notOpenai >>

\* the prompt is built and makeOpenAICall begins, as in StartCall
getBrewSuggestions_grinders ==
  /\ Awaiting("getBrewSuggestions", "grinders") /\ queue[1].ok
  /\ IF EnvUsable(envApiKey)
     THEN /\ suggestionCall' = Some("getBrewSuggestions")
          /\ callEvents' = callEvents \o << "resolve", "request" >>
          /\ Finish
          /\ UNCHANGED << storage, faults >>
     ELSE /\ suggestionCall' = None
          /\ callEvents' = callEvents \o << "resolve" >>
          /\ \E ok \in Outcomes :
               /\ GetItem(API_KEY_STORAGE_KEY, ok)
               /\ Suspend(Task("getBrewSuggestions", "apiKey", ok, "",
                               storage[API_KEY_STORAGE_KEY]))
  /\ UNCHANGED << now, ops, lastAlert, unhandled, envApiKey, messageContent,
                  suggestionResult, responseObject, apiKeyResult,
                  keyReadFailed, imageContent, imageResult, notOpenai >>

getBrewSuggestions ==
  \/ getBrewSuggestions_start
  \/ getBrewSuggestions_devices
  \/ getBrewSuggestions_readFailed
  \/ getBrewSuggestions_grinders
  \/ KeyRead("getBrewSuggestions")
  \/ RequestFailed("getBrewSuggestions")
  \/ ResponseHandled("getBrewSuggestions")

generateGenericBrewSuggestion ==
  \/ StartCall("generateGenericBrewSuggestion")
  \/ KeyRead("generateGenericBrewSuggestion")
  \/ RequestFailed("generateGenericBrewSuggestion")
  \/ ResponseHandled("generateGenericBrewSuggestion")

\* analyzeImage after the response arrived
analyzeImage_response ==
  /\ suggestionCall = Some("analyzeImage")
  /\ suggestionCall' = None
  /\ \E content \in ImageResponses :
       /\ imageContent' = Some(content)
       /\ Settled("analyzeImage", AnalyzeResponse(content))
  /\ UNCHANGED << storage, queue, now, ops, faults, lastAlert, unhandled,
                  envApiKey, messageContent, responseObject, apiKeyResult,
                  keyReadFailed, notOpenai >>

analyzeImage ==
  \/ StartCall("analyzeImage")
  \/ KeyRead("analyzeImage")
  \/ RequestFailed("analyzeImage")
  \/ analyzeImage_response

\* The call that began last has settled.
CallOver == suggestionCall = None /\ queue = <<>> /\ callEvents # <<>>

\* What the call that began last settled with.
CallResult == IF imageResult # None THEN imageResult ELSE suggestionResult

(* ------------------------------------- prompt of getBrewSuggestions (lib/openai) *)
\* The texts here are sequences of characters, a character a string of
\* length one.  String.toLowerCase over the letters these texts use.
UpperCase ==
  << "A", "C", "D", "E", "G", "H", "I", "L", "O", "R", "U", "V", "Y" >>

LowerCase ==
  << "a", "c", "d", "e", "g", "h", "i", "l", "o", "r", "u", "v", "y" >>

ToLowerCase(text) ==
  [i \in 1..Len(text) |->
     IF \E k \in 1..Len(UpperCase) : UpperCase[k] = text[i]
     THEN LowerCase[CHOOSE k \in 1..Len(UpperCase) : UpperCase[k] = text[i]]
     ELSE text[i]]

\* text.includes(part)
IncludesText(text, part) ==
  \E i \in 1..(Len(text) + 1) : OccursAt(text, part, i)

Unknown == << "U", "n", "k", "n", "o", "w", "n" >>

\* What a step of the prompt building gives: a name or undefined (None), or
\* a TypeError thrown.
Named(name) == [thrown |-> FALSE, name |-> name]

TypeError == [thrown |-> TRUE, name |-> None]

\* A resolution that reads the name of what find returned without the
\* optional chaining, for comparison.  C15 does not hold of it.
EquipmentName_unchained(id, equipment) ==
  LET found == SelectSeq(equipment, LAMBDA e : e.id = id[1])
  IN IF id = None \/ id[1] = "" THEN Named(None)
     ELSE IF found = <<>> THEN TypeError
     ELSE IF found[1].name = <<>> THEN Named(Some(Unknown))
     ELSE Named(Some(found[1].name))

\* currentBrew.brewDevice ? brewDevices.find(d => d.id === currentBrew.brewDevice)?.name || 'Unknown' : undefined
\* and the same for the grinder; id is None for a brew without the field.
EquipmentName(id, equipment) ==
  LET found == SelectSeq(equipment, LAMBDA e : e.id = id[1])
  IN IF id = None \/ id[1] = "" THEN Named(None)
     ELSE IF found = <<>> \/ found[1].name = <<>> THEN Named(Some(Unknown))
     ELSE Named(Some(found[1].name))

\* A matching that ignores whether a name was resolved, for comparison.  C19
\* does not hold of it.
PossibleEquipment_always(name, notes, equipment) ==
  LET hit == SelectSeq(equipment,
               LAMBDA e : IncludesText(ToLowerCase(notes), ToLowerCase(e.name)))
  IN [i \in 1..Len(hit) |-> hit[i].name]

\* possibleDevices and possibleGrinders: the names found in the notes, when
\* no name was resolved and there are notes.
PossibleEquipment(name, notes, equipment) ==
  IF name = None /\ notes # <<>>
  THEN LET hit == SelectSeq(equipment,
                    LAMBDA e : IncludesText(ToLowerCase(notes),
                                            ToLowerCase(e.name)))
       IN [i \in 1..Len(hit) |-> hit[i].name]
  ELSE <<>>

\* arr.slice(0, n)
Slice(arr, n) == SubSeq(arr, 1, Min2(n, Len(arr)))

\* A selection that takes the first five as they come, for comparison.  C18
\* does not hold of it.
RelevantBrews_unsorted(previousBrews, selectedBeanName) ==
  Slice(SelectSeq(previousBrews,
          LAMBDA brew :
            \/ selectedBeanName = None \/ selectedBeanName[1] = <<>>
            \/ ToLowerCase(brew.beanName) = ToLowerCase(selectedBeanName[1])),
        5)

\* relevantBrews: the brews of the selected bean, highest rating first, the
\* first five.
RelevantBrews(previousBrews, selectedBeanName) ==
  Slice(SortDesc(SelectSeq(previousBrews,
          LAMBDA brew :
            \/ selectedBeanName = None \/ selectedBeanName[1] = <<>>
            \/ ToLowerCase(brew.beanName) = ToLowerCase(selectedBeanName[1])),
          "rating"),
        5)

\* The parts of the prompt that depend on the equipment and the history;
\* thrown when building them raised an error.
PromptParts(args) ==
  LET device == EquipmentName(args.currentBrew.brewDevice, args.brewDevices)
      grinder == EquipmentName(args.currentBrew.grinder, args.grinders)
  IN [thrown |-> device.thrown \/ grinder.thrown,
      brewDeviceName |-> device.name,
      grinderName |-> grinder.name,
      possibleDevices |->
        PossibleEquipment(device.name, args.currentBrew.notes, args.brewDevices),
      possibleGrinders |->
        PossibleEquipment(grinder.name, args.currentBrew.notes, args.grinders),
      relevantBrews |-> RelevantBrews(args.previousBrews, args.selectedBeanName)]

\* getBrewSuggestions between the reads of the equipment and the request:
\* the prompt is built from the arguments of the call and the parsed
\* equipment documents.
buildPrompt ==
  /\ promptArgs # None /\ promptParts = None
  /\ promptParts' = Some(PromptParts(promptArgs[1]))
  /\ UNCHANGED << storage, queue, now, ops, faults, lastAlert, unhandled,
                  envApiKey, lastWritten, settingsVars, beansVars, brewVars,
                  openaiVars, modalVars, promptArgs, screenVars >>

(* ------------------------------- getOptimalBrewSuggestions (beans screen) *)
\* The texts the handler can show, each one element.
ApiKeyMessage ==
  << "OpenAI API key not found or invalid. Please check your settings." >>

NoConnectionMessage ==
  << "No internet connection detected. Please check your network and try again." >>

TimeoutMessage ==
  << "The request to OpenAI timed out. Please try again later." >>

HistoryFailedMessage ==
  << "Error getting brew suggestions based on history. Please try again later." >>

GenericFailedMessage ==
  << "Error generating suggestions. Please try again later." >>

UnexpectedMessage ==
  << "An unexpected error occurred while generating suggestions. Please try again later." >>

CouldNotGenerate ==
  << "Could not generate brewing suggestions. Please try again later." >>

NoSuggestionText == << "No suggestion text provided." >>

\* error.message?.includes(phrase), for the messages of the errors the
\* handler can catch here: of these only the missing-key message contains
\* one of the phrases it looks for.
Includes(message, phrase) == message = MissingKey /\ phrase = "API key"

\* The errorMessage of a catch block.
ErrorMessage(default, message) ==
  IF Includes(message, "API key") THEN ApiKeyMessage
  ELSE IF Includes(message, "internet connection") THEN NoConnectionMessage
  ELSE IF Includes(message, "timeout") THEN TimeoutMessage
  ELSE default

\* What the handlers of the modal leave alone.
notModal ==
  << now, lastAlert, unhandled, envApiKey, settingsVars, beansVars, brewVars,
     lastWritten, promptVars, screenVars >>

\* The handler moves on to a call of lib/openai, which begins from nothing.
CallNext(pc) ==
  /\ optimalPc' = pc
  /\ callEvents' = <<>>
  /\ suggestionResult' = None
  /\ UNCHANGED << suggestionCall, messageContent, apiKeyResult,
                  responseObject, keyReadFailed, imageContent, imageResult >>

\* A handler whose ending left the loading state as it was, for comparison.
\* C26 does not hold of it.
Ended_loading(shown, data) ==
  /\ optimalPc' = "idle"
  /\ modalSuggestionText' = shown
  /\ navigationData' = data
  /\ gettingSuggestion' = gettingSuggestion

\* The handler ends: the finally block resets the loading state.
Ended(shown, data) ==
  /\ optimalPc' = "idle"
  /\ modalSuggestionText' = shown
  /\ navigationData' = data
  /\ gettingSuggestion' = FALSE

\* The outer catch: the message is stored and shown.
OuterCatch(message) ==
  /\ beanSuggestion' = ErrorMessage(UnexpectedMessage, message)
  /\ Ended(ErrorMessage(UnexpectedMessage, message), None)

\* The suggestion button of a bean is pressed: up to the read of the brews.
\* The handler starts while the two calls it can make are within MaxCalls.
getOptimalBrewSuggestions_press ==
  /\ optimalPc = "idle" /\ queue = <<>> /\ suggestionCall = None
  /\ ops + 2 <= MaxCalls
  /\ \E i \in 1..Len(beans) :
       /\ selectedBeanForSuggestion' = Some(beans[i])
       /\ \E ok \in Outcomes :
            /\ GetItem(BREWS_STORAGE_KEY, ok)
            /\ queue' = Append(queue, Task("getOptimalBrewSuggestions", "brews",
                                           ok, "", storage[BREWS_STORAGE_KEY]))
  /\ navigationData' = None
  /\ suggestionModalVisible' = TRUE
  /\ gettingSuggestion' = TRUE
  /\ modalSuggestionText' = <<>>
  /\ UNCHANGED << ops, beanSuggestion, optimalPc, openaiVars, notModal >>

\* beanBrews sorted by rating, highest first
BeanBrews(stored, bean) ==
  IF stored = None THEN <<>>
  ELSE SortDesc(SelectSeq(JSONParse(stored[1]),
                          LAMBDA brew : brew.beanName = bean.name), "rating")

\* The brews were read: with history and a grinder on the best brew the
\* grinders are read, with history and none getBrewSuggestions is called,
\* without history generateGenericBrewSuggestion.
getOptimalBrewSuggestions_brews ==
  /\ Awaiting("getOptimalBrewSuggestions", "brews")
  /\ LET sortedBrews == BeanBrews(queue[1].data, selectedBeanForSuggestion[1])
     IN IF ~queue[1].ok
        THEN /\ Finish
             /\ OuterCatch("AsyncStorage error")
             /\ UNCHANGED << storage, faults, openaiVars >>
        ELSE IF sortedBrews = <<>>
        THEN /\ Finish
             /\ CallNext("generic")
             /\ UNCHANGED << storage, faults, beanSuggestion,
                             modalSuggestionText, navigationData,
                             gettingSuggestion >>
        ELSE IF Get(sortedBrews[1], "grinder") # None
        THEN /\ \E ok \in Outcomes :
                  /\ GetItem(GRINDERS_STORAGE_KEY, ok)
                  /\ Suspend(Task("getOptimalBrewSuggestions", "grinders", ok,
                                  "", storage[GRINDERS_STORAGE_KEY]))
             /\ UNCHANGED << beanSuggestion, modalSuggestionText,
                             navigationData, gettingSuggestion, optimalPc,
                             openaiVars >>
        ELSE /\ Finish
             /\ CallNext("history")
             /\ UNCHANGED << storage, faults, beanSuggestion,
                             modalSuggestionText, navigationData,
                             gettingSuggestion >>
  /\ UNCHANGED << ops, selectedBeanForSuggestion, suggestionModalVisible,
                  notModal >>

\* The grinders were read: getBrewSuggestions is called.
getOptimalBrewSuggestions_grinders ==
  /\ Awaiting("getOptimalBrewSuggestions", "grinders")
  /\ Finish
  /\ IF ~queue[1].ok
     THEN /\ OuterCatch("AsyncStorage error")
          /\ UNCHANGED openaiVars
     ELSE /\ CallNext("history")
          /\ UNCHANGED << beanSuggestion, modalSuggestionText, navigationData,
                          gettingSuggestion >>
  /\ UNCHANGED << storage, ops, faults, selectedBeanForSuggestion,
                  suggestionModalVisible, notModal >>

\* suggestionResponse.suggestionText || 'No suggestion text provided.'
ShownText(suggestionResponse) ==
  LET text == Get(suggestionResponse[2], << "suggestionText" >>)
  IN IF text = None \/ ~IsString(text) \/ text[2] = <<>>
     THEN NoSuggestionText ELSE text[2]

\* The handler has a suggestionResponse: its text is shown and the response
\* kept for the navigation.
Suggested(suggestionResponse) ==
  Ended(ShownText(suggestionResponse),
        Some([bean |-> selectedBeanForSuggestion[1],
              suggestionResponse |-> suggestionResponse]))

\* getBrewSuggestions has settled: its response is shown, or its error is
\* caught, the message stored, and generateGenericBrewSuggestion is called.
getOptimalBrewSuggestions_history ==
  /\ optimalPc = "history" /\ CallOver
  /\ IF CallResult[1].outcome = "returned"
     THEN /\ Suggested(CallResult[1].value)
          /\ UNCHANGED << beanSuggestion, openaiVars >>
     ELSE /\ beanSuggestion' =
               ErrorMessage(HistoryFailedMessage, CallResult[1].error)
          /\ CallNext("generic")
          /\ UNCHANGED << modalSuggestionText, navigationData,
                          gettingSuggestion >>
  /\ UNCHANGED << storage, queue, ops, faults, selectedBeanForSuggestion,
                  suggestionModalVisible, notModal >>

\* generateGenericBrewSuggestion has settled: its response is shown, or its
\* error is caught, the message stored, and the handler ends without a
\* suggestion.
getOptimalBrewSuggestions_generic ==
  /\ optimalPc = "generic" /\ CallOver
  /\ IF CallResult[1].outcome = "returned"
     THEN /\ Suggested(CallResult[1].value)
          /\ UNCHANGED beanSuggestion
     ELSE /\ beanSuggestion' =
               ErrorMessage(GenericFailedMessage, CallResult[1].error)
          /\ Ended(CouldNotGenerate, None)
  /\ UNCHANGED << storage, queue, ops, faults, selectedBeanForSuggestion,
                  suggestionModalVisible, openaiVars, notModal >>

\* The handler, without the calls it awaits.
getOptimalBrewSuggestions ==
  \/ getOptimalBrewSuggestions_press
  \/ getOptimalBrewSuggestions_brews
  \/ getOptimalBrewSuggestions_grinders
  \/ getOptimalBrewSuggestions_history
  \/ getOptimalBrewSuggestions_generic

\* What the modal shows once it is not loading.
ModalText ==
  IF modalSuggestionText = <<>> THEN << "No suggestions available." >>
  ELSE modalSuggestionText

(* ------------------------------ 'Use Suggestion & Brew' (beans, brew form) *)
DigitChars == << "0", "1", "2", "3", "4", "5", "6", "7", "8", "9" >>

\* Number.prototype.toString of a natural number: its decimal digits.
RECURSIVE Decimal(_)
Decimal(n) ==
  IF n < 10 THEN << DigitChars[n + 1] >>
  ELSE Decimal(n \div 10) \o << DigitChars[(n % 10) + 1] >>

DigitValue(c) == (CHOOSE d \in 1..10 : DigitChars[d] = c) - 1

IsDigit(c) == \E d \in 1..10 : DigitChars[d] = c

RECURSIVE DigitsValue(_, _)
DigitsValue(text, sofar) ==
  IF text = <<>> \/ ~IsDigit(text[1]) THEN sofar
  ELSE DigitsValue(Tail(text), 10 * sofar + DigitValue(text[1]))

\* parseInt(text): leading whitespace is skipped and the digits up to the
\* first other character are read; None stands for NaN.  No sign occurs.
RECURSIVE ParseInt(_)
ParseInt(text) ==
  IF text = <<>> THEN None
  ELSE IF text[1] = " " THEN ParseInt(Tail(text))
  ELSE IF ~IsDigit(text[1]) THEN None
  ELSE Some(DigitsValue(text, 0))

\* The string a form field holds, for the text of a route param.
Text(text) ==
  CASE text = <<>> -> ""
    [] text = << "3", "0" >> -> "30"
    [] text = << "1", "8", "0" >> -> "180"
    [] OTHER -> text[1]

\* a truthy JSON value
Truthy(v) ==
  CASE v = None -> FALSE
    [] v[1] = "string" -> v[2] # <<>>
    [] v[1] = "number" -> v[2] # 0
    [] v[1] = "boolean" -> v[2]
    [] OTHER -> FALSE

\* The string of a route param, as the router passes a value on.
ParamString(v) ==
  CASE v[1] = "string" -> v[2]
    [] v[1] = "number" -> Decimal(v[2])
    [] v[1] = "boolean" -> << IF v[2] THEN "true" ELSE "false" >>
    [] OTHER -> <<>>

\* value || ''
OrEmpty(v) == IF Truthy(v) THEN ParamString(v) ELSE <<>>

\* value?.toString() || ''
ToStringOrEmpty(v) ==
  IF v = None \/ v = Null THEN <<>> ELSE ParamString(v)

\* The params of router.push for the navigation data.
RouteParams(data) ==
  LET suggestionResponse == data.suggestionResponse[2]
  IN [beanId |-> data.bean.id,
      beanName |-> data.bean.name,
      suggestion |-> OrEmpty(Get(suggestionResponse, << "suggestionText" >>)),
      grindSize |->
        OrEmpty(Get(suggestionResponse, << "suggestedGrindSize" >>)),
      waterTemp |->
        OrEmpty(Get(suggestionResponse, << "suggestedWaterTemp" >>)),
      steepTime |->
        ToStringOrEmpty(Get(suggestionResponse,
                            << "suggestedSteepTimeSeconds" >>)),
      useBloom |->
        IF Truthy(Get(suggestionResponse, << "suggestedUseBloom" >>))
        THEN << "true" >> ELSE << "false" >>,
      bloomTime |->
        ToStringOrEmpty(Get(suggestionResponse,
                            << "suggestedBloomTimeSeconds" >>))]

\* What the buttons of the suggestion modal and the effect of the brew
\* screen leave alone.
notRoute ==
  << storage, queue, now, ops, faults, lastAlert, unhandled, envApiKey,
     lastWritten, settingsVars, beansVars, selectedBrewDevice, selectedGrinder,
     formBrewDevices, formGrinders, allBrews, filteredBrews, brewsRefreshing,
     beanNameFilter, saveLog, loaded, openaiVars, promptVars, detailVars,
     timerVars, selectedBeanForSuggestion, gettingSuggestion, beanSuggestion,
     optimalPc >>

\* 'Use Suggestion & Brew' is pressed: the brew screen is pushed with the
\* params of the navigation data, a new screen whose state is the useState
\* defaults, and the modal is closed.
useSuggestion_press ==
  /\ suggestionModalVisible /\ navigationData # None
  /\ params' = Some(RouteParams(navigationData[1]))
  /\ pushed' = navigationData
  /\ effectRan' = FALSE
  /\ form' = InitialForm
  /\ brewSuggestion' = <<>>
  /\ navigationData' = None
  /\ suggestionModalVisible' = FALSE
  /\ modalSuggestionText' = <<>>
  /\ UNCHANGED notRoute

\* A prefill that does not ask for the suggestion text, for comparison.
Prefilled_always(p) == TRUE

\* if (params.suggestion)
Prefilled(p) == p.suggestion # <<>>

\* The form after the effect on the route params.
FormFromParams(p, f) ==
  LET named == IF p.beanName # "" THEN [f EXCEPT !.beanName = p.beanName]
               ELSE f
      time == ParseInt(p.steepTime)
  IN IF ~Prefilled(p) THEN named
     ELSE [named EXCEPT
             !.grindSize = IF p.grindSize # <<>> THEN Text(p.grindSize) ELSE @,
             !.waterTemp = IF p.waterTemp # <<>> THEN Text(p.waterTemp) ELSE @,
             !.steepTimeSeconds =
               IF p.steepTime # <<>> /\ time # None THEN time[1] ELSE @,
             !.useBloom = IF p.useBloom = << "true" >> THEN TRUE ELSE @,
             !.bloomTime =
               IF p.useBloom = << "true" >> /\ p.bloomTime # <<>>
               THEN Text(p.bloomTime) ELSE @]

\* The effect of the brew screen on its route params; the modal of the
\* brew screen, which the effect opens 300 ms later, shows brewSuggestion.
routeParams_effect ==
  /\ params # None /\ ~effectRan
  /\ effectRan' = TRUE
  /\ form' = FormFromParams(params[1], form)
  /\ brewSuggestion' = IF Prefilled(params[1]) THEN params[1].suggestion
                       ELSE brewSuggestion
  /\ UNCHANGED << params, pushed, suggestionModalVisible, navigationData,
                  modalSuggestionText, notRoute >>

\* The close icon or the Close button of the suggestion modal.
closeSuggestion ==
  /\ suggestionModalVisible /\ ~gettingSuggestion
  /\ suggestionModalVisible' = FALSE
  /\ navigationData' = None
  /\ modalSuggestionText' = <<>>
  /\ UNCHANGED << form, routeVars, notRoute >>

(* --------------------------------------------- brew timer ([beanId]/brew.tsx) *)
\* presses of the timer buttons in one behaviour
MaxTimerOps == 4

\* seconds the timer is let run
MaxSeconds == 3

TimerEvent == ops < MaxTimerOps /\ ops' = ops + 1

\* What the timer leaves alone.
notTimer ==
  << storage, queue, now, faults, lastAlert, unhandled, envApiKey, lastWritten,
     settingsVars, beansVars, selectedBrewDevice, selectedGrinder,
     formBrewDevices, formGrinders, allBrews, filteredBrews, brewsRefreshing,
     beanNameFilter, saveLog, loaded, openaiVars, modalVars, promptVars,
     detailVars, routeVars >>

\* clearInterval(timerInterval) of a callback: the interval it was rendered
\* with, if any.
Cleared(interval) == IF interval = None THEN {} ELSE {interval[1]}

\* startTimer, as rendered: it returns when it was rendered with the timer
\* active, and else sets an interval and keeps it in the state.
startTimer ==
  /\ TimerEvent
  /\ IF rendered.timerActive
     THEN UNCHANGED << timer, live, created >>
     ELSE /\ created' = created + 1
          /\ live' = live \cup {created + 1}
          /\ timer' = [timer EXCEPT !.timerActive = TRUE,
                                    !.timerInterval = Some(created + 1)]
  /\ UNCHANGED << form, rendered, notTimer >>

\* stopTimer, as rendered: the interval and the seconds are those of its
\* closure.
stopTimer ==
  /\ TimerEvent
  /\ IF ~rendered.timerActive
     THEN UNCHANGED << timer, live, form >>
     ELSE /\ live' = live \ Cleared(rendered.timerInterval)
          /\ timer' = [timer EXCEPT !.timerActive = FALSE,
                                    !.timerInterval = None]
          /\ form' = [form EXCEPT !.steepTimeSeconds = rendered.timerSeconds]
  /\ UNCHANGED << rendered, created, notTimer >>

resetTimer ==
  /\ TimerEvent
  /\ live' = live \ Cleared(rendered.timerInterval)
  /\ timer' = [timer EXCEPT !.timerActive = FALSE, !.timerSeconds = 0,
                            !.timerInterval = None]
  /\ UNCHANGED << form, rendered, created, notTimer >>

\* An interval that is set fires: setTimerSeconds(prev => prev + 1).
tick ==
  /\ live # {}
  /\ timer.timerSeconds < MaxSeconds
  /\ timer' = [timer EXCEPT !.timerSeconds = @ + 1]
  /\ UNCHANGED << ops, form, rendered, live, created, notTimer >>

\* The component renders with the state: the callbacks are made anew, and
\* the cleanup of the effect on timerInterval clears the interval of the
\* render before when timerInterval has changed.
render ==
  /\ rendered # timer
  /\ rendered' = timer
  /\ live' = IF rendered.timerInterval # timer.timerInterval
             THEN live \ Cleared(rendered.timerInterval) ELSE live
  /\ UNCHANGED << ops, form, timer, created, notTimer >>

\* The component has rendered with its state when a button is pressed.
Rendered == rendered = timer

renderedStartTimer == Rendered /\ startTimer

renderedStopTimer == Rendered /\ stopTimer

renderedResetTimer == Rendered /\ resetTimer

(* ----------------------------------------------- getApiKey (lib/openai) *)
\* What a resolution gives: the resolver that ran and the key it returned.
Resolved(by, key) == [by |-> by, key |-> key]

\* getApiKey -> getApiKeyInternal up to its await.
getApiKey_start ==
  /\ UserEvent
  /\ queue = <<>>
  /\ keyReadFailed' = FALSE
  /\ IF EnvUsable(envApiKey)
     THEN /\ apiKeyResult' = Some(Resolved("getApiKeyInternal", envApiKey))
          /\ UNCHANGED << storage, queue, faults >>
     ELSE /\ apiKeyResult' = None
          /\ \E ok \in Outcomes :
               /\ GetItem(API_KEY_STORAGE_KEY, ok)
               /\ queue' = Append(queue, Task("getApiKey", "read", ok, "",
                                              storage[API_KEY_STORAGE_KEY]))
  /\ UNCHANGED << now, lastAlert, unhandled, envApiKey, suggestionCall,
                  messageContent, suggestionResult, responseObject,
                  imageContent, imageResult, callEvents, notOpenai >>

getApiKey_read ==
  /\ Awaiting("getApiKey", "read")
  /\ Finish
  /\ apiKeyResult' =
       Some(Resolved("getApiKeyInternal",
                     StoredKeyResult(queue[1].data, queue[1].ok)))
  /\ keyReadFailed' = ~queue[1].ok
  /\ UNCHANGED << storage, now, ops, faults, lastAlert, unhandled, envApiKey,
                  suggestionCall, messageContent, suggestionResult,
                  responseObject, imageContent, imageResult, callEvents,
                  notOpenai >>

getApiKey == getApiKey_start \/ getApiKey_read

\* The earlier getApiKey: OPENAI_API_KEY && OPENAI_API_KEY !== placeholder.
EarlierEnvUsable(env) ==
  env # None /\ env[1] # <<>> /\ env[1] # Placeholder

earlierGetApiKey_start ==
  /\ UserEvent
  /\ queue = <<>>
  /\ keyReadFailed' = FALSE
  /\ IF EarlierEnvUsable(envApiKey)
     THEN /\ apiKeyResult' = Some(Resolved("getApiKey", envApiKey))
          /\ UNCHANGED << storage, queue, faults >>
     ELSE /\ apiKeyResult' = None
          /\ \E ok \in Outcomes :
               /\ GetItem(API_KEY_STORAGE_KEY, ok)
               /\ queue' = Append(queue, Task("earlierGetApiKey", "read", ok,
                                              "", storage[API_KEY_STORAGE_KEY]))
  /\ UNCHANGED << now, lastAlert, unhandled, envApiKey, suggestionCall,
                  messageContent, suggestionResult, responseObject,
                  imageContent, imageResult, callEvents, notOpenai >>

\* The earlier getApiKey returns what it read; a rejected read gives null.
earlierGetApiKey_read ==
  /\ Awaiting("earlierGetApiKey", "read")
  /\ Finish
  /\ apiKeyResult' =
       Some(Resolved("getApiKey", IF queue[1].ok THEN queue[1].data ELSE None))
  /\ keyReadFailed' = ~queue[1].ok
  /\ UNCHANGED << storage, now, ops, faults, lastAlert, unhandled, envApiKey,
                  suggestionCall, messageContent, suggestionResult,
                  responseObject, imageContent, imageResult, callEvents,
                  notOpenai >>

earlierGetApiKey == earlierGetApiKey_start \/ earlierGetApiKey_read

(* ------------------------------------------------------------ specifications *)
vars ==
  << storage, queue, now, ops, faults, lastAlert, unhandled, settingsVars,
     envApiKey, beansVars, lastWritten, brewVars, openaiVars, modalVars,
     promptVars, screenVars >>

\* Documents a device can hold when the app starts: nothing (first start),
\* or what an earlier session left.
FreshStorage == [k \in StorageKeys |-> None]

StoredBeans ==
  << [id |-> "10", name |-> "Yirgacheffe", roastLevel |-> "2",
      flavorNotes |-> <<"citrus">>, description |-> "", timestamp |-> 10],
     [id |-> "20", name |-> "Huila", roastLevel |-> "unknown",
      flavorNotes |-> <<>>, description |-> "",
      photo |-> Some("data:image/jpeg;base64"), timestamp |-> 20] >>

UsedStorage ==
  [k \in StorageKeys |->
     CASE k = BREW_DEVICES_STORAGE_KEY -> Some(JSONStringify(defaultDevices))
       [] k = GRINDERS_STORAGE_KEY -> Some(JSONStringify(defaultGrinders))
       [] k = DEFAULT_BREW_DEVICE_KEY -> Some("1")
       [] k = BEANS_STORAGE_KEY -> Some(JSONStringify(StoredBeans))
       [] OTHER -> None]

InitCommon ==
  /\ queue = <<>>
  /\ now = ClockStart
  /\ ops = 0
  /\ faults = 0
  /\ lastAlert = <<>>
  /\ unhandled = FALSE
  /\ lastWritten = [k \in {BREW_DEVICES_STORAGE_KEY, GRINDERS_STORAGE_KEY,
                           BEANS_STORAGE_KEY} |-> None]

InitSettings ==
  /\ brewDevices = <<>>
  /\ grinders = <<>>
  /\ defaultBrewDevice = ""
  /\ defaultGrinder = ""
  /\ savedApiKey = None
  /\ refreshing = FALSE
  /\ newDevice = EmptyForm
  /\ newGrinder = EmptyForm

InitBeans ==
  /\ beans = <<>>
  /\ newBean = EmptyBeanForm
  /\ loading = FALSE
  /\ showAddForm = FALSE
  /\ confirmDelete = None

InitOpenai ==
  /\ suggestionCall = None
  /\ messageContent = None
  /\ suggestionResult = None
  /\ apiKeyResult = None
  /\ responseObject = None
  /\ keyReadFailed = FALSE
  /\ imageContent = None
  /\ imageResult = None
  /\ callEvents = <<>>

InitModal ==
  /\ selectedBeanForSuggestion = None
  /\ suggestionModalVisible = FALSE
  /\ gettingSuggestion = FALSE
  /\ modalSuggestionText = <<>>
  /\ beanSuggestion = <<>>
  /\ navigationData = None
  /\ optimalPc = "idle"

\* No prompt is followed.
NoPrompt == promptArgs = None /\ promptParts = None

InitDetails ==
  /\ selectedBrew = None
  /\ suggestion = <<>>
  /\ detailsVisible = FALSE
  /\ loadingSuggestion = FALSE
  /\ fetches = <<>>

InitRoute ==
  /\ params = None
  /\ pushed = None
  /\ effectRan = FALSE
  /\ brewSuggestion = <<>>

\* useState(false), useState(0), useState(null)
InitialTimer ==
  [timerActive |-> FALSE, timerSeconds |-> 0, timerInterval |-> None]

InitTimer ==
  /\ timer = InitialTimer
  /\ rendered = InitialTimer
  /\ live = {}
  /\ created = 0

NoScreens == InitDetails /\ InitRoute /\ InitTimer

InitBrew ==
  /\ allBrews = <<>>
  /\ filteredBrews = <<>>
  /\ brewsRefreshing = FALSE
  /\ saveLog = <<>>
  /\ loaded = None

\* Brews saved before the behaviour starts.
StoredBrews ==
  << [id |-> "900", timestamp |-> 900, beanName |-> "Yirgacheffe",
      steepTime |-> 180, useBloom |-> TRUE, bloomTime |-> Some("30"),
      grindSize |-> "Medium", waterTemp |-> "96C", rating |-> 7,
      notes |-> "", brewDevice |-> Some("1"), grinder |-> None],
     [id |-> "950", timestamp |-> 950, beanName |-> "Huila",
      steepTime |-> 120, useBloom |-> FALSE, bloomTime |-> None,
      grindSize |-> "Coarse", waterTemp |-> "90C", rating |-> 4,
      notes |-> "flat", brewDevice |-> None, grinder |-> Some("2")] >>

BrewStorage(stored) ==
  [k \in StorageKeys |->
     CASE k = BREW_DEVICES_STORAGE_KEY -> Some(JSONStringify(defaultDevices))
       [] k = GRINDERS_STORAGE_KEY -> Some(JSONStringify(defaultGrinders))
       [] k = DEFAULT_BREW_DEVICE_KEY -> Some("1")
       [] k = DEFAULT_GRINDER_KEY -> Some("2")
       [] k = BREWS_STORAGE_KEY -> stored
       [] OTHER -> None]

\* The form's equipment state just after mount, before loadEquipment ran.
EquipmentNotLoaded ==
  /\ selectedBrewDevice = ""
  /\ selectedGrinder = ""
  /\ formBrewDevices = <<>>
  /\ formGrinders = <<>>

\* A form the user has filled in before the behaviour starts.
FilledForm == CHOOSE f \in BrewForms : f.useBloom

\* SpecBrew: the new-brew form and the brew list over one storage.  The list
\* screen is opened with or without a beanName route parameter; the form is
\* taken once the user has filled it in.
InitBrewScreens ==
  /\ InitCommon /\ InitSettings /\ InitBeans /\ InitBrew /\ InitOpenai /\ InitModal
  /\ NoPrompt /\ NoScreens
  /\ form = FilledForm
  /\ EquipmentNotLoaded
  /\ storage \in {BrewStorage(None), BrewStorage(Some(JSONStringify(StoredBrews)))}
  /\ beanNameFilter \in {"", "Yirgacheffe"}
  /\ envApiKey = None

NextBrew ==
  \/ EditBrewForm \/ SelectEquipment
  \/ loadEquipment
  \/ handleSaveBrew
  \/ loadBrews

SpecBrew == InitBrewScreens /\ [][NextBrew]_vars

\* SpecForm: loadEquipment of the new-brew form over equipment documents
\* that are absent or hold the seeded records, and default pointers that are
\* absent, the id of a record, or the id of a record that was deleted.
FormStorage(devices, grindersDoc, device, grinder) ==
  [k \in StorageKeys |->
     CASE k = BREW_DEVICES_STORAGE_KEY -> devices
       [] k = GRINDERS_STORAGE_KEY -> grindersDoc
       [] k = DEFAULT_BREW_DEVICE_KEY -> device
       [] k = DEFAULT_GRINDER_KEY -> grinder
       [] OTHER -> None]

InitForm ==
  /\ InitCommon /\ InitSettings /\ InitBeans /\ InitBrew /\ InitOpenai /\ InitModal
  /\ NoPrompt /\ NoScreens
  /\ form = InitialForm
  /\ EquipmentNotLoaded
  /\ beanNameFilter = ""
  /\ envApiKey = None
  /\ \E devices \in {None, Some(JSONStringify(defaultDevices))},
        grindersDoc \in {None, Some(JSONStringify(defaultGrinders))},
        device \in {None, Some("2"), Some("3")},
        grinder \in {None, Some("1"), Some("3")} :
       storage = FormStorage(devices, grindersDoc, device, grinder)

NextForm == loadEquipment

SpecForm == InitForm /\ [][NextForm]_vars

\* SpecEarlierForm: the same for the earlier version of the form.
NextEarlierForm == earlierLoadEquipment

SpecEarlierForm == InitForm /\ [][NextEarlierForm]_vars

\* SpecList: loadBrews of the brew list over a brews document that is
\* absent, well formed or cut off, with and without a filter; a read may be
\* rejected and loads may overlap.
InitList ==
  /\ InitCommon /\ InitSettings /\ InitBeans /\ InitBrew /\ InitOpenai /\ InitModal
  /\ NoPrompt /\ NoScreens
  /\ form = InitialForm
  /\ EquipmentNotLoaded
  /\ storage \in {BrewStorage(None),
                  BrewStorage(Some(JSONStringify(StoredBrews))),
                  BrewStorage(Some(CutOff(JSONStringify(StoredBrews))))}
  /\ beanNameFilter \in {"", "Yirgacheffe"}
  /\ envApiKey = None

NextList == loadBrews

SpecList == InitList /\ [][NextList]_vars

\* SpecSuggest: the two suggestion calls, with the key in the environment or
\* in storage or nowhere.
KeyStorage(stored) ==
  [k \in StorageKeys |-> IF k = API_KEY_STORAGE_KEY THEN stored ELSE None]

InitSuggest ==
  /\ InitCommon /\ InitSettings /\ InitBeans /\ InitBrew /\ InitOpenai /\ InitModal
  /\ NoPrompt /\ NoScreens
  /\ form = InitialForm
  /\ EquipmentNotLoaded
  /\ beanNameFilter = ""
  /\ envApiKey \in {None, Some(<< "sk-env" >>)}
  /\ storage \in {KeyStorage(None), KeyStorage(Some(<< " " >>)),
                  KeyStorage(Some(<< "sk-stored" >>))}

NextSuggest ==
  getBrewSuggestions \/ generateGenericBrewSuggestion \/ analyzeImage

SpecSuggest == InitSuggest /\ [][NextSuggest]_vars

\* SpecModal: the suggestion modal of the beans screen with the calls of
\* lib/openai it makes.  The beans are loaded; the brews document is absent
\* or holds a brew of each bean, the key is stored or not.
ModalStorage(brews, key) ==
  [k \in StorageKeys |->
     CASE k = BREWS_STORAGE_KEY -> brews
       [] k = API_KEY_STORAGE_KEY -> key
       [] OTHER -> UsedStorage[k]]

InitModalScreen ==
  /\ InitCommon /\ InitSettings /\ InitBrew /\ InitOpenai /\ InitModal
  /\ NoPrompt /\ NoScreens
  /\ form = InitialForm
  /\ EquipmentNotLoaded
  /\ beanNameFilter = ""
  /\ beans = StoredBeans
  /\ newBean = EmptyBeanForm
  /\ loading = FALSE
  /\ showAddForm = FALSE
  /\ confirmDelete = None
  /\ envApiKey = None
  /\ \E brews \in {None, Some(JSONStringify(StoredBrews))},
        key \in {None, Some(<< "sk-stored" >>)} :
       storage = ModalStorage(brews, key)

NextModal ==
  \/ getOptimalBrewSuggestions
  \/ getBrewSuggestions
  \/ generateGenericBrewSuggestion

SpecModal == InitModalScreen /\ [][NextModal]_vars

\* What runs without the user once the suggestion button was pressed: the
\* continuations of the handler after its storage reads, and the calls of
\* lib/openai, whose requests settle or time out (timeout: 15000).
ModalRuns ==
  \/ getOptimalBrewSuggestions_brews
  \/ getOptimalBrewSuggestions_grinders
  \/ getOptimalBrewSuggestions_history
  \/ getOptimalBrewSuggestions_generic
  \/ getBrewSuggestions
  \/ generateGenericBrewSuggestion

\* SpecModalFair: SpecModal where every settled promise is continued.
SpecModalFair == SpecModal /\ WF_vars(ModalRuns)

\* SpecUse: SpecModal with the buttons of the modal once the handler has
\* ended, and the brew screen they push.
NextUse ==
  \/ getOptimalBrewSuggestions
  \/ getBrewSuggestions
  \/ generateGenericBrewSuggestion
  \/ useSuggestion_press
  \/ routeParams_effect
  \/ closeSuggestion

SpecUse == InitModalScreen /\ [][NextUse]_vars

\* SpecPrompt: the prompt building of getBrewSuggestions over the equipment
\* documents, the brew, the history and the bean name a call can be given.
V60 == [id |-> "1", name |-> << "V", "6", "0" >>]

Aero == [id |-> "2", name |-> << "A", "e", "r", "o" >>]

Ode == [id |-> "3", name |-> << "O", "d", "e" >>]

C40 == [id |-> "4", name |-> << "C", "4", "0" >>]

Yirga == << "Y", "i", "r", "g", "a" >>

Huila == << "H", "u", "i", "l", "a" >>

PreviousBrew(id, beanName, rating) ==
  [id |-> id, beanName |-> beanName, rating |-> rating]

\* Seven brews of one bean, one of another; fewer; none.
Histories ==
  { <<>>,
    << PreviousBrew("a", Yirga, 5), PreviousBrew("b", Huila, 9) >>,
    << PreviousBrew("a", Yirga, 5), PreviousBrew("b", Yirga, 9),
       PreviousBrew("c", ToLowerCase(Yirga), 7), PreviousBrew("d", Huila, 10),
       PreviousBrew("e", Yirga, 7), PreviousBrew("f", Yirga, 3),
       PreviousBrew("g", Yirga, 8), PreviousBrew("h", Yirga, 6) >> }

CurrentBrews ==
  { [brewDevice |-> d, grinder |-> g, notes |-> n] :
      d \in {None, Some(""), Some("1"), Some("9")},
      g \in {None, Some("3"), Some("9")},
      n \in { <<>>, << "s", "o", "u", "r" >>, << "A", "E", "R", "O" >>,
              << "v", "6", "0", " ", "o", "d", "e" >> } }

PromptInputs ==
  [currentBrew : CurrentBrews,
   previousBrews : Histories,
   selectedBeanName : {None, Some(<<>>), Some(ToLowerCase(Yirga)),
                       Some(<< "H", "U", "I", "L", "A" >>)},
   brewDevices : {<<>>, << V60, Aero >>},
   grinders : {<<>>, << Ode, C40 >>}]

InitPrompt ==
  /\ InitCommon /\ InitSettings /\ InitBeans /\ InitBrew /\ InitOpenai
  /\ InitModal /\ NoScreens
  /\ form = InitialForm
  /\ EquipmentNotLoaded
  /\ beanNameFilter = ""
  /\ envApiKey = None
  /\ storage = FreshStorage
  /\ promptArgs \in {Some(args) : args \in PromptInputs}
  /\ promptParts = None

NextPrompt == buildPrompt

SpecPrompt == InitPrompt /\ [][NextPrompt]_vars

\* SpecBeanNames: loadBeans of beans.tsx and deleteBean over a bean document
\* that is absent or holds one or both beans, and a brews document that is
\* absent or holds brews of both beans and one without a bean name.  The
\* screen has shown the bean document before.
NamedBrews ==
  StoredBrews \o
  << [id |-> "960", timestamp |-> 960, beanName |-> "Huila",
      steepTime |-> 150, useBloom |-> FALSE, bloomTime |-> None,
      grindSize |-> "Medium", waterTemp |-> "92C", rating |-> 8,
      notes |-> "sweet", brewDevice |-> None, grinder |-> None],
     [id |-> "970", timestamp |-> 970, beanName |-> "",
      steepTime |-> 150, useBloom |-> FALSE, bloomTime |-> None,
      grindSize |-> "Medium", waterTemp |-> "92C", rating |-> 9,
      notes |-> "", brewDevice |-> None, grinder |-> None] >>

NamesStorage(storedBeans, storedBrews) ==
  [k \in StorageKeys |->
     CASE k = BEANS_STORAGE_KEY -> storedBeans
       [] k = BREWS_STORAGE_KEY -> storedBrews
       [] OTHER -> None]

InitBeanNames ==
  /\ InitCommon /\ InitSettings /\ InitBrew /\ InitOpenai /\ InitModal
  /\ NoPrompt /\ NoScreens
  /\ form = InitialForm
  /\ EquipmentNotLoaded
  /\ beanNameFilter = ""
  /\ envApiKey = None
  /\ newBean = EmptyBeanForm
  /\ loading = FALSE
  /\ showAddForm = FALSE
  /\ confirmDelete = None
  /\ \E shown \in {<<>>, SubSeq(StoredBeans, 1, 1), StoredBeans} :
       /\ beans = shown
       /\ \E storedBrews \in {None, Some(JSONStringify(NamedBrews))} :
            storage = NamesStorage(IF shown = <<>> THEN None
                                   ELSE Some(JSONStringify(shown)),
                                   storedBrews)

NextBeanNames == loadBeansWithBrews \/ deleteBean

SpecBeanNames == InitBeanNames /\ [][NextBeanNames]_vars

\* SpecDetails: the brew details modal over the loaded list of the stored
\* brews; a brew is pressed, the modal closed, another brew pressed, and the
\* calls return in any order.
InitDetailsScreen ==
  /\ InitCommon /\ InitSettings /\ InitBeans /\ InitOpenai /\ InitModal
  /\ NoPrompt /\ NoScreens
  /\ form = InitialForm
  /\ EquipmentNotLoaded
  /\ storage \in {BrewStorage(Some(JSONStringify(StoredBrews))),
                  BrewStorage(Some(JSONStringify(NamedBrews)))}
  /\ beanNameFilter = ""
  /\ envApiKey = None
  /\ allBrews = AllBrewsAfterFilter(
                  FixedBrews(JSONParse(storage[BREWS_STORAGE_KEY][1])))
  /\ filteredBrews = allBrews
  /\ brewsRefreshing = FALSE
  /\ saveLog = <<>>
  /\ loaded = Some(storage[BREWS_STORAGE_KEY])

NextDetails == fetchSuggestion \/ closeDetails

SpecDetails == InitDetailsScreen /\ [][NextDetails]_vars

\* SpecKey: credential resolution over the values the environment and the
\* storage can hold: nothing, an empty or blank text, a key with or without
\* spaces around it, the placeholder.
KeyTexts ==
  { <<>>, << " " >>, << " ", "NL" >>, << "sk-1" >>, << " ", "sk-1" >>,
    << "sk-2", " " >>, Placeholder }

InitKey ==
  /\ InitCommon /\ InitSettings /\ InitBeans /\ InitBrew /\ InitOpenai /\ InitModal
  /\ NoPrompt /\ NoScreens
  /\ form = InitialForm
  /\ EquipmentNotLoaded
  /\ beanNameFilter = ""
  /\ envApiKey \in {None} \cup {Some(t) : t \in KeyTexts}
  /\ storage \in {KeyStorage(None)} \cup {KeyStorage(Some(t)) : t \in KeyTexts}

NextKey == getApiKey \/ earlierGetApiKey

SpecKey == InitKey /\ [][NextKey]_vars

\* SpecSettingsKey: the key of the settings screen, which has loaded, with
\* getApiKey.  The environment gives a key, a blank text, the placeholder or
\* nothing.
InitSettingsKey ==
  /\ InitCommon /\ InitBeans /\ InitBrew /\ InitOpenai /\ InitModal
  /\ NoPrompt /\ NoScreens
  /\ form = InitialForm
  /\ EquipmentNotLoaded
  /\ beanNameFilter = ""
  /\ envApiKey \in {None, Some(<< " " >>), Some(Placeholder), Some(<< "sk-env" >>)}
  /\ storage \in {KeyStorage(None), KeyStorage(Some(<<>>)),
                  KeyStorage(Some(<< "sk-0" >>))}
  /\ brewDevices = <<>>
  /\ grinders = <<>>
  /\ defaultBrewDevice = ""
  /\ defaultGrinder = ""
  /\ savedApiKey = IF EnvUsable(envApiKey) THEN envApiKey
                   ELSE StoredKeyResult(storage[API_KEY_STORAGE_KEY], TRUE)
  /\ refreshing = FALSE
  /\ newDevice = EmptyForm
  /\ newGrinder = EmptyForm

NextSettingsKey ==
  \/ handleSaveApiKey
  \/ handleRemoveApiKey
  \/ getApiKey

SpecSettingsKey == InitSettingsKey /\ [][NextSettingsKey]_vars

\* SpecTimer: the timer of the brew form; a press can come before the
\* component has rendered with the state the press before it set.
InitTimerScreen ==
  /\ InitCommon /\ InitSettings /\ InitBeans /\ InitBrew /\ InitOpenai /\ InitModal
  /\ NoPrompt /\ NoScreens
  /\ form \in {[InitialForm EXCEPT !.beanName = "Huila"]} \cup BrewForms
  /\ EquipmentNotLoaded
  /\ beanNameFilter = ""
  /\ envApiKey = None
  /\ storage = KeyStorage(None)

NextTimer == startTimer \/ stopTimer \/ resetTimer \/ tick \/ render

SpecTimer == InitTimerScreen /\ [][NextTimer]_vars

\* SpecRenderedTimer: the timer when every press finds the component
\* rendered with its state.
NextRenderedTimer ==
  \/ renderedStartTimer \/ renderedStopTimer \/ renderedResetTimer
  \/ tick \/ render

SpecRenderedTimer == InitTimerScreen /\ [][NextRenderedTimer]_vars

\* SpecEquip: the settings screen and the beans screen over one storage.
InitEquip ==
  /\ InitCommon /\ InitSettings /\ InitBeans /\ InitBrew /\ InitOpenai /\ InitModal
  /\ NoPrompt /\ NoScreens
  /\ form = InitialForm
  /\ EquipmentNotLoaded
  /\ storage \in {FreshStorage, UsedStorage}
  /\ beanNameFilter = ""
  /\ envApiKey = None

NextEquip ==
  \/ EditDeviceForm \/ EditGrinderForm
  \/ addBrewDevice \/ addGrinder
  \/ handleRemoveBrewDevice \/ handleRemoveGrinder
  \/ setAsDefaultBrewDevice \/ setAsDefaultGrinder
  \/ loadData
  \/ EditBeanForm \/ loadBeans \/ addBean \/ deleteBean

SpecEquip == InitEquip /\ [][NextEquip]_vars

(* ==================================================================== claims *)

\* A setItem on the document `key' has been issued and its callback has not
\* run yet.
WriteInFlight(key) ==
  \E i \in 1..Len(queue) :
    \/ /\ key = BREW_DEVICES_STORAGE_KEY
       /\ \/ queue[i].op \in {"addBrewDevice", "handleRemoveBrewDevice"}
             /\ queue[i].pc = "write"
          \/ queue[i].op = "loadData" /\ queue[i].pc = "seedDevices"
    \/ /\ key = GRINDERS_STORAGE_KEY
       /\ \/ queue[i].op \in {"addGrinder", "handleRemoveGrinder"}
             /\ queue[i].pc = "write"
          \/ queue[i].op = "loadData" /\ queue[i].pc = "seedGrinders"
    \/ /\ key = BEANS_STORAGE_KEY
       /\ queue[i].op \in {"addBean", "deleteBean"} /\ queue[i].pc = "save"

\* C1: for every sequence of add and delete operations on the brew-device,
\* grinder and bean documents, once no write of a document is in flight the
\* persisted document, parsed, equals the array the screen held in memory
\* at its last successful write of that document.
C1_PersistedEqualsLastWritten ==
  \A key \in DOMAIN lastWritten :
    (lastWritten[key] # None /\ ~WriteInFlight(key)) =>
       /\ storage[key] # None
       /\ SameArray(JSONParse(storage[key][1]), lastWritten[key][1])

\* C1 witness: writes have completed, among them one of an array holding a
\* record whose optional field is undefined in memory.
C1_Witness ==
  /\ queue = <<>>
  /\ \E key \in DOMAIN lastWritten :
       /\ lastWritten[key] # None
       /\ \E i \in 1..Len(lastWritten[key][1]) :
            LET r == lastWritten[key][1][i]
            IN \E f \in DOMAIN r : f \in OptionalFields(r) /\ r[f] = None

\* The step in which the head task of the queue runs to its end.
Completes(op, pc) == Awaiting(op, pc) /\ queue' = Tail(queue)

\* The head task resumes (it finishes or suspends at its next await).
Resumes(op, pc) ==
  /\ Awaiting(op, pc)
  /\ queue' # queue
  /\ \/ queue' = Tail(queue)
     \/ /\ Len(queue') = Len(queue)
        /\ Tail(queue) = SubSeq(queue', 1, Len(queue') - 1)

\* The deletion at the head of the queue completes, its last storage request
\* having succeeded.
Deleted(op) ==
  /\ queue # <<>> /\ queue[1].op = op /\ queue[1].ok
  /\ queue' = Tail(queue)

\* C2: once a deletion of a device (grinder) has completed, the deleted id is
\* not the default any more: had it been the default, persisted or in memory,
\* the pointer was cleared, so the persisted default key and the in-memory
\* default do not name the deleted record.
C2_DeletedDefaultCleared ==
  [][ /\ Deleted("handleRemoveBrewDevice") =>
           /\ storage'[DEFAULT_BREW_DEVICE_KEY] # Some(queue[1].id)
           /\ defaultBrewDevice' # queue[1].id
      /\ Deleted("handleRemoveGrinder") =>
           /\ storage'[DEFAULT_GRINDER_KEY] # Some(queue[1].id)
           /\ defaultGrinder' # queue[1].id
    ]_vars

\* The persisted pointer `key' is absent, or holds the id of a set-default
\* request `op' that was issued since and is still awaiting its callback.
AbsentOrReset(key, op) ==
  \/ storage'[key] = None
  \/ \E i \in 1..Len(queue') :
       /\ queue'[i].op = op /\ queue'[i].ok
       /\ storage'[key] = Some(queue'[i].id)

\* What the two handlers do ensure: a deletion of the device (grinder) whose
\* id is the default of the render the handler was created in goes on, once
\* its document write succeeded, to remove the persisted default key; when
\* it completes the in-memory default is empty and the persisted key is
\* absent, unless a set-default pressed while the deletion was in flight has
\* set it again.
DeleteClearsRenderedDefault ==
  [][ /\ ( /\ Resumes("handleRemoveBrewDevice", "write")
           /\ queue[1].ok /\ queue[1].data = queue[1].id ) =>
           /\ Len(queue') = Len(queue)
           /\ queue'[Len(queue')].pc = "clear"
           /\ queue'[Len(queue')].ok =>
                storage'[DEFAULT_BREW_DEVICE_KEY] = None
      /\ (Completes("handleRemoveBrewDevice", "clear") /\ queue[1].ok) =>
           /\ defaultBrewDevice' = ""
           /\ AbsentOrReset(DEFAULT_BREW_DEVICE_KEY, "setAsDefaultBrewDevice")
      /\ ( /\ Resumes("handleRemoveGrinder", "write")
           /\ queue[1].ok /\ queue[1].data = queue[1].id ) =>
           /\ Len(queue') = Len(queue)
           /\ queue'[Len(queue')].pc = "clear"
           /\ queue'[Len(queue')].ok =>
                storage'[DEFAULT_GRINDER_KEY] = None
      /\ (Completes("handleRemoveGrinder", "clear") /\ queue[1].ok) =>
           /\ defaultGrinder' = ""
           /\ AbsentOrReset(DEFAULT_GRINDER_KEY, "setAsDefaultGrinder")
    ]_vars

\* C2 witness: device '1', the persisted default, has been deleted and no
\* handler is in flight; the persisted default key and the in-memory
\* default still name it.
C2_Witness ==
  /\ queue = <<>>
  /\ storage[BREW_DEVICES_STORAGE_KEY] # None
  /\ "1" \notin Ids(JSONParse(storage[BREW_DEVICES_STORAGE_KEY][1]))
  /\ "1" \notin Ids(brewDevices)
  /\ storage[DEFAULT_BREW_DEVICE_KEY] = Some("1")
  /\ defaultBrewDevice = "1"

(* ----------------------------------------------------------------- C3, C4 *)
\* The brews document as it is persisted now.
PersistedBrews ==
  IF storage[BREWS_STORAGE_KEY] # None
  THEN JSONParse(storage[BREWS_STORAGE_KEY][1]) ELSE <<>>

\* What a logged save read.
ReadBy(entry) ==
  IF entry.read # None THEN JSONParse(entry.read[1]) ELSE <<>>

\* Saves i and j of the log (i wrote before j) interleaved: j read the
\* document before i wrote it.
Interleaved(i, j) == i < j /\ saveLog[j].readAt < i

\* C3: when two handleSaveBrew executions both read the brews document
\* before either writes it, the persisted document after the second write is
\* exactly what the second writer wrote, the document it read plus its own
\* record, so the first writer's record is not added: the document has one
\* record more than the second writer read, and no record with the first
\* writer's id unless the second writer read or made a record with that id.
C3_LostUpdate ==
  LET j == Len(saveLog)
  IN \A i \in 1..(j - 1) :
       Interleaved(i, j) =>
         /\ storage[BREWS_STORAGE_KEY] = Some(saveLog[j].written)
         /\ SameArray(PersistedBrews,
                      Append(ReadBy(saveLog[j]), saveLog[j].newBrew))
         /\ Len(PersistedBrews) = Len(ReadBy(saveLog[j])) + 1
         /\ saveLog[i].newBrew.id \notin
                Ids(ReadBy(saveLog[j])) \cup {saveLog[j].newBrew.id} =>
              saveLog[i].newBrew.id \notin Ids(PersistedBrews)

\* Two saves of different records interleaved, both wrote, and a record was
\* stored before.
C3_Witness ==
  /\ Len(saveLog) = 2
  /\ Interleaved(1, 2)
  /\ queue = <<>>
  /\ saveLog[1].newBrew.id # saveLog[2].newBrew.id
  /\ saveLog[2].read # None

\* The loaded list holds a brew with the fields of b.
Listed(b) == \E k \in 1..Len(allBrews) : SameObject(allBrews[k], b)

\* The record of a logged save carries what the form held when Save was
\* pressed.
AsEntered(entry) ==
  LET b == entry.newBrew
      f == entry.form
  IN /\ b.beanName = f.beanName
     /\ b.steepTime = f.steepTimeSeconds
     /\ b.grindSize = f.grindSize
     /\ b.waterTemp = f.waterTemp
     /\ b.rating = f.rating
     /\ b.notes = f.notes
     /\ b.useBloom = f.useBloom
     /\ b.bloomTime = (IF f.useBloom THEN Some(f.bloomTime) ELSE None)
     /\ b.brewDevice = (IF entry.brewDevice = "" THEN None
                        ELSE Some(entry.brewDevice))
     /\ b.grinder = (IF entry.grinder = "" THEN None ELSE Some(entry.grinder))

\* loadBrews has finished and the document it read is the one this save wrote.
ReloadedAfter(entry) ==
  /\ loaded = Some(Some(entry.written))
  /\ ~\E n \in 1..Len(queue) : queue[n].op = "loadBrews"

\* What was stored just before a logged save wrote.
StoredBefore(entry) ==
  IF entry.before # None THEN JSONParse(entry.before[1]) ELSE <<>>

\* C4 as stated: when loadBrews reloads the document a handleSaveBrew wrote,
\* the loaded list holds the new brew with every field as entered, and every
\* brew that was stored before the save wrote, with its fields unchanged.
C4_Original ==
  \A n \in 1..Len(saveLog) :
    ReloadedAfter(saveLog[n]) =>
      /\ AsEntered(saveLog[n])
      /\ Listed(saveLog[n].newBrew)
      /\ \A k \in 1..Len(StoredBefore(saveLog[n])) :
           Listed(StoredBefore(saveLog[n])[k])

\* C4 (amended): when loadBrews reloads the document a handleSaveBrew wrote,
\* the loaded list holds the new brew with every field as entered in the
\* form, and every brew of the document the save had read when it began,
\* with its fields unchanged; the list holds nothing else.
C4_SaveThenReload ==
  \A n \in 1..Len(saveLog) :
    ReloadedAfter(saveLog[n]) =>
      /\ AsEntered(saveLog[n])
      /\ Listed(saveLog[n].newBrew)
      /\ \A k \in 1..Len(ReadBy(saveLog[n])) : Listed(ReadBy(saveLog[n])[k])
      /\ Len(allBrews) = Len(ReadBy(saveLog[n])) + 1

\* A save of another bean's brew with bloom and a grinder, reloaded by a list
\* that is filtered by bean name, over two stored brews.
C4_Witness ==
  \E n \in 1..Len(saveLog) :
    /\ ReloadedAfter(saveLog[n])
    /\ Len(ReadBy(saveLog[n])) = 2
    /\ beanNameFilter # ""
    /\ saveLog[n].newBrew.beanName # beanNameFilter
    /\ saveLog[n].form.useBloom
    /\ saveLog[n].brewDevice # ""

(* ------------------------------------------------------------- C5 .. C9 *)
\* The response text is valid JSON.
ValidJSON(text) == JSONParseText(text).ok

\* A response was handled: the call ended on a response with this content.
Handled == suggestionResult # None /\ messageContent # None

SuggestionKeys == {<< SuggestionFields[i] >> : i \in 1..Len(SuggestionFields)}

\* The narrative mentions the first parameter as a JSON member.
EmbedsParameters(text) ==
  \E i \in 1..Len(text) :
    OccursAt(text, << Quote, "suggestedGrindSize", Quote, ":" >>, i)

\* The object has the six fields, and its narrative is a text without
\* embedded parameter JSON.
WellFormed(o) ==
  /\ SuggestionKeys \subseteq DOMAIN o
  /\ IsString(o[<< "suggestionText" >>])
  /\ ~EmbedsParameters(o[<< "suggestionText" >>][2])

\* C5: when the message content is the JSON text of an object with all six
\* fields whose narrative embeds no parameter JSON, the suggestion call
\* returns that object, every field unchanged.
C5_WellFormedUnchanged ==
  (Handled /\ responseObject # None /\ WellFormed(responseObject[1])) =>
     suggestionResult[1] = Returned(Obj(responseObject[1]))

\* A well-formed response whose narrative holds quotes or ends in a space was
\* returned.
C5_Witness ==
  /\ Handled /\ responseObject # None /\ WellFormed(responseObject[1])
  /\ LET text == responseObject[1][<< "suggestionText" >>][2]
     IN text # <<>> /\ (Quote \in Range(text) \/ text[Len(text)] = " ")
  /\ suggestionResult[1].outcome = "returned"

\* The five structured parameters of a response object.
ParametersOf(o) ==
  [k \in (DOMAIN o) \ {<< "suggestionText" >>} |-> o[k]]

\* The segment is the parameter JSON of the response: the object of its five
\* parameters, written with or without spaces.
IsParameterJSON(segment, o) ==
  /\ DOMAIN ParametersOf(o) = SuggestionKeys \ {<< "suggestionText" >>}
  /\ \E gap \in {<<>>, << " " >>} :
       segment = SerializeObject(ParametersOf(o), gap)

\* C6: when the parsed suggestionText is a narrative followed by the
\* parameter JSON as trailing text ending in '}', the call returns the
\* narrative that precedes it, intact, and the five parameters unchanged.
C6_CleanupRemovesTrailing ==
  (Handled /\ responseObject # None
     /\ << "suggestionText" >> \in DOMAIN responseObject[1]
     /\ IsString(responseObject[1][<< "suggestionText" >>])) =>
     LET o == responseObject[1]
         text == o[<< "suggestionText" >>][2]
     IN \A k \in 1..Len(text) :
          IsParameterJSON(SubSeq(text, k + 1, Len(text)), o) =>
            suggestionResult[1] =
              Returned(Obj([o EXCEPT ![<< "suggestionText" >>] =
                                       Str(SubSeq(text, 1, k))]))

\* A narrative followed by the parameter JSON was handled and a result
\* returned.
C6_Witness ==
  /\ Handled /\ responseObject # None
  /\ << "suggestionText" >> \in DOMAIN responseObject[1]
  /\ IsString(responseObject[1][<< "suggestionText" >>])
  /\ LET o == responseObject[1]
         text == o[<< "suggestionText" >>][2]
     IN \E k \in 1..Len(text) :
          IsParameterJSON(SubSeq(text, k + 1, Len(text)), o)
  /\ suggestionResult[1].outcome = "returned"

\* The occurrences of "suggestionText": "<text>" in a text: the key with
\* its colon at position `at', then whitespace, then a quote, characters
\* other than the quote (they are `quoted'), and a quote.
KeyPositions(text) ==
  {i \in 1..Len(text) : OccursAt(text, SuggestionTextKey, i)}

Opens(text, i) ==
  {a \in (i + 4)..Len(text) :
     text[a] = Quote /\ \A k \in (i + 4)..(a - 1) : IsSpace(text[k])}

Closes(text, a) ==
  {b \in (a + 1)..Len(text) :
     text[b] = Quote /\ \A k \in (a + 1)..(b - 1) : text[k] # Quote}

Occurrences(text) ==
  UNION { UNION { { [at |-> i, quoted |-> SubSeq(text, a + 1, b - 1)] :
                      b \in Closes(text, a) } :
                  a \in Opens(text, i) } :
          i \in KeyPositions(text) }

\* The result that carries only an extracted narrative.
ExtractedOnly(quoted) ==
  Returned(Obj([k \in SuggestionKeys |->
                  IF k = << "suggestionText" >> THEN Str(quoted)
                  ELSE IF k = << "suggestedUseBloom" >> THEN Bool(FALSE)
                  ELSE Null]))

Leftmost(text) ==
  CHOOSE o \in Occurrences(text) : \A p \in Occurrences(text) : o.at <= p.at

C8_NeitherThrows ==
  (Handled /\ (messageContent[1] = <<>> \/ ~ValidJSON(messageContent[1]))
     /\ Occurrences(messageContent[1]) = {}) =>
     /\ suggestionResult[1].outcome = "thrown"
     /\ suggestionResult[1].value = Null
     /\ suggestionResult[1].error # ""

\* A cut-off response that names suggestionText without a closed quoted text
\* was handled.
C8_Witness ==
  /\ Handled /\ messageContent[1] # <<>> /\ ~ValidJSON(messageContent[1])
  /\ Occurrences(messageContent[1]) = {}
  /\ KeyPositions(messageContent[1]) # {}
  /\ suggestionResult[1].outcome = "thrown"

\* C9: every result a suggestion call returns is complete: an object with
\* the six fields, suggestionText a string and suggestedUseBloom a boolean.
C9_ResultComplete ==
  (suggestionResult # None /\ suggestionResult[1].outcome = "returned") =>
     LET value == suggestionResult[1].value
     IN /\ value[1] = "object"
        /\ SuggestionKeys \subseteq DOMAIN value[2]
        /\ IsString(value[2][<< "suggestionText" >>])
        /\ value[2][<< "suggestedUseBloom" >>][1] = "boolean"

\* A response object without the five parameters was returned.
C9_Witness ==
  /\ suggestionResult # None /\ suggestionResult[1].outcome = "returned"
  /\ responseObject # None
  /\ DOMAIN responseObject[1] = {<< "suggestionText" >>}

(* -------------------------------------------------------------------- C10 *)
\* A text is blank: it holds nothing but whitespace.
Blank(text) == \A i \in 1..Len(text) : IsSpace(text[i])

\* The key the stated resolution order gives.
StatedResolution ==
  IF envApiKey # None /\ ~Blank(envApiKey[1]) /\ envApiKey[1] # Placeholder
  THEN envApiKey
  ELSE IF /\ ~keyReadFailed
          /\ storage[API_KEY_STORAGE_KEY] # None
          /\ ~Blank(storage[API_KEY_STORAGE_KEY][1])
       THEN storage[API_KEY_STORAGE_KEY]
  ELSE None

\* C10: credential resolution returns the environment value when it is
\* present, not blank and not the placeholder; otherwise the persisted value
\* when that is not blank; otherwise null; a storage read error gives null.
C10_CredentialResolution ==
  apiKeyResult # None => apiKeyResult[1].key = StatedResolution

\* The same for the current resolver, getApiKeyInternal, alone.
C10_CurrentResolution ==
  (apiKeyResult # None /\ apiKeyResult[1].by = "getApiKeyInternal") =>
     apiKeyResult[1].key = StatedResolution

\* The current resolver passed over a blank environment value and returned a
\* persisted key.
C10_Witness ==
  /\ apiKeyResult # None /\ apiKeyResult[1].by = "getApiKeyInternal"
  /\ envApiKey # None /\ envApiKey[1] # <<>> /\ Blank(envApiKey[1])
  /\ apiKeyResult[1].key # None

(* ----------------------------------------------------------------------- *)
\* No credential resolves for the call: the environment value is unusable
\* and the stored key is absent or blank or its read was rejected.
NoCredential ==
  /\ ~EnvUsable(envApiKey)
  /\ \/ keyReadFailed
     \/ StoredKeyResult(storage[API_KEY_STORAGE_KEY], TRUE) = None

\* C11: a call of getBrewSuggestions, generateGenericBrewSuggestion or
\* analyzeImage for which no credential resolves never sends the request,
\* and once makeOpenAICall has asked for the key the call ends with the
\* missing-key error thrown and nothing else done.
C11_MissingKeyBeforeRequest ==
  NoCredential =>
    /\ "request" \notin Range(callEvents)
    /\ (CallOver /\ "resolve" \in Range(callEvents)) =>
         /\ CallResult = Some(Thrown(MissingKey))
         /\ SubSeq(callEvents, Len(callEvents) - 1, Len(callEvents))
              = << "resolve", "thrown" >>

\* A call has ended on the missing key: its read of the stored key was
\* rejected.
C11_Witness ==
  /\ CallOver /\ NoCredential /\ keyReadFailed
  /\ CallResult = Some(Thrown(MissingKey))
  /\ "request" \notin Range(callEvents)

\* C12: a call sends at most one request (one call of
\* client.chat.completions.create); when the request fails the call
\* ends at once with that error thrown, once, and no second request.
C12_OneRequestNoRetry ==
  /\ Count(callEvents, "request") <= 1
  /\ Count(callEvents, "thrown") + Count(callEvents, "returned") <= 1
  /\ (CallOver /\ CallResult = Some(Thrown("Connection error."))) =>
       SubSeq(callEvents, Len(callEvents) - 1, Len(callEvents))
         = << "request", "thrown" >>
  /\ CallOver => /\ CallResult # None
                 /\ callEvents[Len(callEvents)] = CallResult[1].outcome

\* A call whose request failed has ended.
C12_Witness ==
  /\ CallOver
  /\ CallResult = Some(Thrown("Connection error."))
  /\ Count(callEvents, "request") = 1

(* ----------------------------------------------------------------------- *)
\* getOptimalBrewSuggestions has run to its end.
HandlerEnded ==
  /\ optimalPc = "idle" /\ queue = <<>>
  /\ selectedBeanForSuggestion # None /\ ~gettingSuggestion

\* No API key is to be found: the environment has none and the stored key
\* is absent or blank.
KeyMissing ==
  /\ ~EnvUsable(envApiKey)
  /\ StoredKeyResult(storage[API_KEY_STORAGE_KEY], TRUE) = None

\* The handler has ended past its own storage reads, so after calls of
\* lib/openai.
EndedAfterCalls == HandlerEnded /\ ModalText # UnexpectedMessage

\* C13: when the API key is missing and getOptimalBrewSuggestions ends after
\* its calls of lib/openai, the modal shows the text for a missing or
\* invalid key, which no other failure shows.
C13_MissingKeyShown ==
  /\ (EndedAfterCalls /\ KeyMissing) => ModalText = ApiKeyMessage
  /\ (EndedAfterCalls /\ ~KeyMissing) => ModalText # ApiKeyMessage

\* The handler has ended on the missing key: the text for the key is stored
\* in beanSuggestion, and the modal shows the text it shows for any failure.
C13_Witness ==
  /\ EndedAfterCalls /\ KeyMissing
  /\ CallResult = Some(Thrown(MissingKey))
  /\ beanSuggestion = ApiKeyMessage
  /\ ModalText = CouldNotGenerate
  /\ navigationData = None

(* ----------------------------------------------------------------------- *)
\* C14: no error raised inside a handler of a screen escapes the handler as
\* an unhandled rejection.
C14_ErrorsCaught == ~unhandled

\* The write of addBrewDevice or addGrinder was rejected: the rejection has
\* escaped, nothing was alerted, and the form still holds the entry.
C14_Witness ==
  /\ unhandled /\ queue = <<>>
  /\ lastAlert = <<>>
  /\ newDevice # EmptyForm \/ newGrinder # EmptyForm

(* ----------------------------------------------------------------------- *)
\* The prompt of the call has been built.
Built == promptArgs # None /\ promptParts # None

\* The brew names an equipment id that no record of the list carries.
NoMatch(id, equipment) ==
  id # None /\ id[1] # "" /\ id[1] \notin Ids(equipment)

\* C15: when the brew's brewDevice (grinder) id matches no stored record,
\* the name resolved for it is 'Unknown' and building the prompt raises no
\* error.
C15_UnknownEquipment ==
  Built =>
    LET args == promptArgs[1]
        parts == promptParts[1]
    IN /\ NoMatch(args.currentBrew.brewDevice, args.brewDevices) =>
            parts.brewDeviceName = Some(Unknown) /\ ~parts.thrown
       /\ NoMatch(args.currentBrew.grinder, args.grinders) =>
            parts.grinderName = Some(Unknown) /\ ~parts.thrown

\* A prompt was built for a brew whose device id is not among the stored
\* devices and whose grinder id is not among the stored grinders.
C15_Witness ==
  /\ Built
  /\ promptArgs[1].brewDevices # <<>> /\ promptArgs[1].grinders # <<>>
  /\ NoMatch(promptArgs[1].currentBrew.brewDevice, promptArgs[1].brewDevices)
  /\ NoMatch(promptArgs[1].currentBrew.grinder, promptArgs[1].grinders)
  /\ promptParts[1].brewDeviceName = Some(Unknown)
  /\ promptParts[1].grinderName = Some(Unknown)

(* ----------------------------------------------------------------------- *)
\* A bean name was given to the call.
Given(selectedBeanName) == selectedBeanName # None /\ selectedBeanName[1] # <<>>

\* Two texts are equal up to the case of their letters.
SameIgnoringCase(a, b) ==
  /\ Len(a) = Len(b)
  /\ \A i \in 1..Len(a) : ToLowerCase(<< a[i] >>) = ToLowerCase(<< b[i] >>)

\* The brews of the history that the bean name admits.
Matching(args) ==
  {i \in 1..Len(args.previousBrews) :
     Given(args.selectedBeanName) =>
       SameIgnoringCase(args.previousBrews[i].beanName,
                        args.selectedBeanName[1])}

\* C18: the brews put into the prompt are brews of the history, each once,
\* at most 5 and all of them when fewer match; each is of the bean given,
\* up to case; they stand in non-increasing order of rating; and no brew
\* of the bean that was left out is rated higher than one put in.
C18_TopFiveByRating ==
  Built =>
    LET args == promptArgs[1]
        relevant == promptParts[1].relevantBrews
        chosen == {i \in Matching(args) :
                     \E k \in 1..Len(relevant) :
                        relevant[k] = args.previousBrews[i]}
    IN /\ Len(relevant) = Min2(5, Cardinality(Matching(args)))
       /\ Cardinality(chosen) = Len(relevant)
       /\ \A k \in 1..Len(relevant) :
            \E i \in chosen : relevant[k] = args.previousBrews[i]
       /\ \A k \in 1..(Len(relevant) - 1) :
            relevant[k].rating >= relevant[k + 1].rating
       /\ \A i \in Matching(args) \ chosen, j \in chosen :
            args.previousBrews[i].rating <= args.previousBrews[j].rating

\* A prompt was built from a history with more than five brews of the bean
\* given, in another case, and brews of another bean.
C18_Witness ==
  /\ Built
  /\ Given(promptArgs[1].selectedBeanName)
  /\ Cardinality(Matching(promptArgs[1])) > 5
  /\ Cardinality(Matching(promptArgs[1])) < Len(promptArgs[1].previousBrews)
  /\ Len(promptParts[1].relevantBrews) = 5
  /\ \E k \in 1..5 :
       promptParts[1].relevantBrews[k].beanName # promptArgs[1].selectedBeanName[1]

\* An equipment id is set on the brew.
IdSet(id) == id # None /\ id[1] # ""

\* The name occurs in the notes, up to the case of the letters.
OccursIn(name, notes) ==
  \E i \in 1..(Len(notes) - Len(name) + 1) :
     SameIgnoringCase(SubSeq(notes, i, i + Len(name) - 1), name)

\* The names of the list that occur in the notes, in the order of the list.
NamesIn(notes, equipment) ==
  LET hit == SelectSeq(equipment, LAMBDA e : OccursIn(e.name, notes))
  IN [i \in 1..Len(hit) |-> hit[i].name]

\* C19: with a brewDevice (grinder) id set on the brew the list of possible
\* devices (grinders) is empty; with none set it holds exactly the stored
\* names that occur in the notes, up to case.
C19_NotesMatchedWithoutId ==
  Built =>
    LET args == promptArgs[1]
        parts == promptParts[1]
        notes == args.currentBrew.notes
    IN /\ parts.possibleDevices =
            IF IdSet(args.currentBrew.brewDevice) THEN <<>>
            ELSE NamesIn(notes, args.brewDevices)
       /\ parts.possibleGrinders =
            IF IdSet(args.currentBrew.grinder) THEN <<>>
            ELSE NamesIn(notes, args.grinders)

\* A prompt was built for a brew with a grinder id and no device id, whose
\* notes name a stored device and a stored grinder in another case.
C19_Witness ==
  /\ Built
  /\ ~IdSet(promptArgs[1].currentBrew.brewDevice)
  /\ IdSet(promptArgs[1].currentBrew.grinder)
  /\ NamesIn(promptArgs[1].currentBrew.notes, promptArgs[1].grinders) # <<>>
  /\ promptParts[1].possibleDevices = << V60.name >>
  /\ promptParts[1].possibleGrinders = <<>>


\* ---------------------------------------------------------------- C16
\* The non-empty bean names of the brews document.
PersistedBrewNames ==
  IF storage[BREWS_STORAGE_KEY] = None THEN {}
  ELSE LET brews == JSONParse(storage[BREWS_STORAGE_KEY][1])
       IN {brews[i].beanName : i \in 1..Len(brews)} \ {""}

PersistedBeans ==
  IF storage[BEANS_STORAGE_KEY] = None THEN <<>>
  ELSE JSONParse(storage[BEANS_STORAGE_KEY][1])

NamesOf(arr) == {arr[i].name : i \in 1..Len(arr)}

\* A bean that loadBeans made up from the brews.
MadeUp(bean) == bean.id \notin Ids(StoredBeans)

OneMadeUp(arr) ==
  \A i, j \in 1..Len(arr) :
    (MadeUp(arr[i]) /\ arr[i].name = arr[j].name) => i = j

\* A step in which loadBeans shows its beans, which is its successful end.
LoadCompleted ==
  /\ Awaiting("loadBeansWithBrews", "brews")
     \/ Awaiting("loadBeansWithBrews", "write")
  /\ queue[1].ok
  /\ queue' = Tail(queue)

\* The bean document is still the one this loadBeans read, or the one it
\* wrote: no other handler has written it in between.
NotRewritten ==
  IF queue[1].pc = "write"
  THEN storage[BEANS_STORAGE_KEY] = Some(JSONStringify(queue[1].data))
  ELSE storage[BEANS_STORAGE_KEY] = queue[1].data.storedBeans

\* C16, as stated: when loadBeans of the bean screen has completed
\* successfully, every non-empty beanName of the brews document is the name
\* of a bean of the list in memory and of a bean of the persisted bean
\* document, and no name has a made-up bean beside another bean of that
\* name, however often the beans were loaded.
C16_BrewNamesHaveBeans ==
  [][LoadCompleted =>
       /\ PersistedBrewNames' \subseteq NamesOf(beans')
       /\ PersistedBrewNames' \subseteq NamesOf(PersistedBeans')
       /\ OneMadeUp(beans')
       /\ OneMadeUp(PersistedBeans')]_vars

\* C16, amended: the same, with the persisted bean document held to it only
\* when no deleteBean has written that document since the load read it.
C16_BrewNamesHaveBeansUnlessRewritten ==
  [][LoadCompleted =>
       /\ PersistedBrewNames' \subseteq NamesOf(beans')
       /\ NotRewritten => PersistedBrewNames' \subseteq NamesOf(PersistedBeans')
       /\ OneMadeUp(beans')
       /\ OneMadeUp(PersistedBeans')]_vars

\* C16 is met: a load that follows one which made up a bean has read both
\* documents, the bean document with the made-up bean in it, and is about
\* to show its beans.
C16_Witness ==
  /\ Awaiting("loadBeansWithBrews", "brews") /\ queue[1].ok
  /\ queue[1].data.storedBrews # None
  /\ queue[1].data.storedBeans # None
  /\ NotRewritten
  /\ \E i \in 1..Len(PersistedBeans) : MadeUp(PersistedBeans[i])


\* ---------------------------------------------------------------- C17
\* C17: the records of the persisted brews document have pairwise distinct
\* ids, whatever handleSaveBrew operations have run.
C17_DistinctBrewIds ==
  \A i, j \in 1..Len(PersistedBrews) :
    PersistedBrews[i].id = PersistedBrews[j].id => i = j

\* C17 is not met: two saves that completed have left two records with the
\* id of one reading of the clock in the document.
C17_Witness ==
  /\ queue = <<>>
  /\ Len(saveLog) >= 2
  /\ \E i, j \in 1..Len(PersistedBrews) :
       /\ i < j
       /\ PersistedBrews[i].id = PersistedBrews[j].id
       /\ PersistedBrews[j] = saveLog[Len(saveLog)].newBrew
       /\ \E k \in 1..(Len(saveLog) - 1) :
            PersistedBrews[i] = saveLog[k].newBrew


\* ---------------------------------------------------------------- C20
\* The first brace-delimited JSON object of a text: of the stretches from
\* an opening to a closing brace that are valid JSON, the one that starts
\* first, and of these the one that ends first; None when there is none.
FirstJSONObject(text) ==
  LET spans == {span \in (1..Len(text)) \X (1..Len(text)) :
                  /\ span[1] < span[2]
                  /\ text[span[1]] = "{" /\ text[span[2]] = "}"
                  /\ JSONParseText(SubSeq(text, span[1], span[2])).ok}
      first == CHOOSE span \in spans :
                 \A other \in spans :
                   \/ span[1] < other[1]
                   \/ span[1] = other[1] /\ span[2] <= other[2]
  IN IF spans = {} THEN None
     ELSE Some(SubSeq(text, first[1], first[2]))

\* analyzeImage has handled a response.
ImageHandled == imageContent # None /\ imageResult # None

NoContent == imageContent[1] = None \/ imageContent[1][1] = <<>>

\* C20: analyzeImage returns the parsed value of the first brace-delimited
\* JSON object of the response text, whatever text stands before or after
\* that object; it throws when the response has no content, and when the
\* text has no such object and is not valid JSON itself.
C20_FirstObjectParsed ==
  ImageHandled =>
    IF NoContent
    THEN imageResult[1] = Thrown("No content returned from OpenAI")
    ELSE LET text == imageContent[1][1]
             object == FirstJSONObject(text)
         IN /\ object # None =>
                 imageResult[1] = Returned(JSONParseText(object[1]).value)
            /\ (object = None /\ ~JSONParseText(text).ok) =>
                 imageResult[1].outcome = "thrown"

\* C20 is not met: the response text holds a JSON object, and analyzeImage
\* has thrown its parse error.
C20_Witness ==
  /\ ImageHandled /\ ~NoContent
  /\ FirstJSONObject(imageContent[1][1]) # None
  /\ imageResult[1] = Thrown("Failed to parse image analysis data.")


\* ---------------------------------------------------------------- C21
\* A step in which loadBrews ends after its read was rejected or its
\* document did not parse.
LoadBrewsFailed ==
  /\ Awaiting("loadBrews", "read")
  /\ queue' = Tail(queue)
  /\ \/ ~queue[1].ok
     \/ queue[1].data # None /\ JSONParseThrows(queue[1].data[1])

\* C21: when the read or the parse of the brews document fails in loadBrews,
\* the full and the filtered brew list are empty afterwards, refreshing is
\* false again and no alert is shown, nor does the error escape.
C21_FailedLoadEmptiesLists ==
  [][LoadBrewsFailed =>
       /\ allBrews' = <<>> /\ filteredBrews' = <<>>
       /\ brewsRefreshing' = FALSE
       /\ lastAlert' = lastAlert /\ ~unhandled']_vars

\* C21 is met: the list shows brews and a further loadBrews, whose read was
\* rejected, is about to end.
C21_Witness ==
  /\ Awaiting("loadBrews", "read") /\ ~queue[1].ok
  /\ allBrews # <<>> /\ filteredBrews # <<>>
  /\ brewsRefreshing

\* The parse case of C21: the document read is cut off and loadBrews is
\* about to end.
ParseFailureReached ==
  /\ Awaiting("loadBrews", "read") /\ queue[1].ok
  /\ queue[1].data # None /\ JSONParseThrows(queue[1].data[1])


\* ---------------------------------------------------------------- C22
\* A step in which loadEquipment ends after its four reads.
EquipmentLoaded ==
  /\ Awaiting("loadEquipment", "defaultGrinder") /\ queue[1].ok
  /\ queue' = Tail(queue)

\* The pointer under key is the id of a record of list.
PointsInto(key, list) ==
  storage[key] # None /\ storage[key][1] \in Ids(list)

Preselected ==
  /\ selectedBrewDevice' =
       IF PointsInto(DEFAULT_BREW_DEVICE_KEY, formBrewDevices')
       THEN storage[DEFAULT_BREW_DEVICE_KEY][1] ELSE ""
  /\ selectedGrinder' =
       IF PointsInto(DEFAULT_GRINDER_KEY, formGrinders')
       THEN storage[DEFAULT_GRINDER_KEY][1] ELSE ""
  /\ selectedBrewDevice' \in Ids(formBrewDevices') \cup {""}
  /\ selectedGrinder' \in Ids(formGrinders') \cup {""}

\* C22: when loadEquipment of the new-brew form has completed, the selected
\* brew device is the persisted default-device pointer if that id is the id
\* of a loaded device, and nothing is selected otherwise; the same holds of
\* the grinder; an id that no loaded record carries is never selected.
C22_DefaultPreselectedIfListed == [][EquipmentLoaded => Preselected]_vars

\* The statement of C22 for the current version of loadEquipment alone.
C22_CurrentLoadEquipment ==
  [][(EquipmentLoaded /\ queue[1].id = "") => Preselected]_vars

\* C22 is not met: the devices are loaded and the selected device is the
\* id of the default pointer, which no loaded device carries.
C22_Witness ==
  /\ queue = <<>>
  /\ formBrewDevices # <<>>
  /\ storage[DEFAULT_BREW_DEVICE_KEY] = Some(selectedBrewDevice)
  /\ selectedBrewDevice \notin Ids(formBrewDevices)

\* The current version has preselected as stated: the default-device
\* pointer names a deleted device and nothing is selected, the default
\* grinder is selected.
CurrentPreselection ==
  /\ queue = <<>> /\ ops > 0
  /\ formBrewDevices # <<>> /\ formGrinders # <<>>
  /\ storage[DEFAULT_BREW_DEVICE_KEY] = Some("3")
  /\ selectedBrewDevice = ""
  /\ storage[DEFAULT_GRINDER_KEY] = Some("1")
  /\ selectedGrinder = "1"


\* ---------------------------------------------------------------- C23
\* The pointer under pointerKey, if present, is the id of a record of the
\* document under documentKey.
PointerHeld(pointerKey, documentKey) ==
  storage[pointerKey] # None =>
    /\ storage[documentKey] # None
    /\ storage[pointerKey][1] \in Ids(JSONParse(storage[documentKey][1]))

\* C23: whenever no operation of the settings screen is in flight, the
\* persisted default-device pointer, if present, is the id of a record of
\* the persisted device document, and the default-grinder pointer that of a
\* record of the grinder document.
C23_DefaultPointsAtRecord ==
  queue = <<>> =>
    /\ PointerHeld(DEFAULT_BREW_DEVICE_KEY, BREW_DEVICES_STORAGE_KEY)
    /\ PointerHeld(DEFAULT_GRINDER_KEY, GRINDERS_STORAGE_KEY)

\* C23 is not met: no storage request was rejected, nothing is in flight,
\* a device was made the default with success, and the device document,
\* which still holds a seeded device, does not hold that device.
C23_Witness ==
  /\ queue = <<>> /\ faults = 0
  /\ lastAlert = <<"Default brew device set successfully.">>
  /\ storage[DEFAULT_BREW_DEVICE_KEY] = Some(defaultBrewDevice)
  /\ storage[BREW_DEVICES_STORAGE_KEY] # None
  /\ LET devices == JSONParse(storage[BREW_DEVICES_STORAGE_KEY][1])
     IN /\ defaultBrewDevice \notin Ids(devices)
        /\ Ids(devices) \cap Ids(defaultDevices) # {}
        /\ Ids(brewDevices) = Ids(devices)


\* ---------------------------------------------------------------- C24
\* A step in which addBean ends, after saveBeans has returned.
AddBeanEnded == Awaiting("addBean", "save") /\ queue' = Tail(queue)

\* The bean that the addBean at the head of the queue has built.
BeanToAdd == queue[1].data[Len(queue[1].data)]

SuccessReported == \E i \in 1..Len(lastAlert) :
                     lastAlert[i] = "Bean added successfully!"

\* C24: when addBean ends with the success alert and the form reset, the
\* new bean is in the persisted bean document and in the in-memory list;
\* when the write was rejected, no success is reported and the form is as
\* the user filled it.
C24_SuccessOnlyWhenSaved ==
  [][AddBeanEnded =>
       /\ (SuccessReported' /\ newBean' = EmptyBeanForm) =>
            /\ \E i \in 1..Len(beans') : beans'[i] = BeanToAdd
            /\ storage'[BEANS_STORAGE_KEY] # None
            /\ BeanToAdd.id \in Ids(JSONParse(storage'[BEANS_STORAGE_KEY][1]))
       /\ ~queue[1].ok => (~SuccessReported' /\ newBean' = newBean)]_vars

\* C24 is not met: addBean has ended after a rejected write, the failure
\* and the success alert were both shown, the form is reset, and neither
\* the list nor the bean document holds a bean of the name entered.
C24_Witness ==
  /\ queue = <<>>
  /\ lastAlert = <<"Failed to save beans.", "Bean added successfully!">>
  /\ newBean = EmptyBeanForm /\ ~showAddForm
  /\ \A i \in 1..Len(beans) : beans[i].name # "Geisha"
  /\ storage[BEANS_STORAGE_KEY] # None =>
       \A i \in 1..Len(storage[BEANS_STORAGE_KEY][1]) :
         ParseObject(storage[BEANS_STORAGE_KEY][1][i]).name # "Geisha"


\* ---------------------------------------------------------------- C25
\* A call for the selected brew has not returned.
SelectedInFlight ==
  \E i \in 1..Len(fetches) : Some(fetches[i]) = selectedBrew

\* C25: when the modal is not loading, a suggestion it shows was computed
\* for the brew in selectedBrew; and while a call for the selected brew is
\* in flight, the loading flag is true.
C25_SuggestionOfSelectedBrew ==
  /\ (~loadingSuggestion /\ suggestion # <<>>
      /\ suggestion # ErrorGettingSuggestion) =>
        suggestion = SuggestionFor(selectedBrew[1])
  /\ SelectedInFlight => loadingSuggestion

\* C25 is not met: the modal is open on one brew, nothing is in flight any
\* more, and it shows the suggestion computed for another brew.
C25_Witness ==
  /\ detailsVisible /\ ~loadingSuggestion /\ fetches = <<>>
  /\ selectedBrew # None
  /\ \E i \in 1..Len(allBrews) :
       /\ allBrews[i] # selectedBrew[1]
       /\ suggestion = SuggestionFor(allBrews[i])


(* ----------------------------------------------------------------------- *)
\* The call getOptimalBrewSuggestions awaited has returned a response.
ResponseObtained ==
  /\ optimalPc \in {"history", "generic"}
  /\ CallOver /\ CallResult # None
  /\ CallResult[1].outcome = "returned"

\* The step on which getOptimalBrewSuggestions completes.
HandlerCompletes == gettingSuggestion /\ ~gettingSuggestion'

\* C26: every invocation of getOptimalBrewSuggestions eventually completes
\* with gettingSuggestion false, whatever the storage reads and the calls
\* did, and at its completion navigationData is set exactly when the
\* history-based or the generic call returned a response.
C26_CompletesWithNavigationData ==
  /\ gettingSuggestion ~> (~gettingSuggestion /\ optimalPc = "idle")
  /\ [][HandlerCompletes =>
          /\ optimalPc' = "idle"
          /\ navigationData' # None <=> ResponseObtained]_vars

\* The history-based call failed and the generic call returned: the handler
\* has ended with the data of the generic response.
C26_Witness ==
  /\ HandlerEnded
  /\ navigationData # None
  /\ beanSuggestion = HistoryFailedMessage
  /\ Count(callEvents, "returned") = 1


(* ----------------------------------------------------------------------- *)
\* The response the pushed brew screen was given.
PushedResponse == pushed[1].suggestionResponse[2]

\* The member of the pushed response is null or missing.
IsNull(key) ==
  Get(PushedResponse, << key >>) = None \/ Get(PushedResponse, << key >>) = Null

\* The member of the pushed response has the type the interface declares
\* for a value that is not null.
IsOf(key, type) ==
  /\ Get(PushedResponse, << key >>) # None
  /\ Get(PushedResponse, << key >>)[1] = type

Suggests(key) == Get(PushedResponse, << key >>)[2]

\* The form field is the useState default.
Default(field) == form[field] = InitialForm[field]

\* The form holds every parameter of the pushed response that is not null,
\* and its default where the parameter is null.
FormHoldsSuggestion ==
  /\ IsOf("suggestedGrindSize", "string") =>
       form.grindSize = Text(Suggests("suggestedGrindSize"))
  /\ IsNull("suggestedGrindSize") => Default("grindSize")
  /\ IsOf("suggestedWaterTemp", "string") =>
       form.waterTemp = Text(Suggests("suggestedWaterTemp"))
  /\ IsNull("suggestedWaterTemp") => Default("waterTemp")
  /\ IsOf("suggestedSteepTimeSeconds", "number") =>
       form.steepTimeSeconds = Suggests("suggestedSteepTimeSeconds")
  /\ IsNull("suggestedSteepTimeSeconds") => Default("steepTimeSeconds")
  /\ IsOf("suggestedUseBloom", "boolean") =>
       form.useBloom = Suggests("suggestedUseBloom")
  /\ IsNull("suggestedUseBloom") => Default("useBloom")
  /\ IsOf("suggestedBloomTimeSeconds", "number") =>
       form.bloomTime
         = Text(Decimal(Suggests("suggestedBloomTimeSeconds")))
  /\ IsNull("suggestedBloomTimeSeconds") => Default("bloomTime")

\* C27: once 'Use Suggestion & Brew' was taken and the brew screen has read
\* its route params, the form holds every non-null parameter of the
\* response and its defaults where a parameter is null.
C27_FormPrefilled == effectRan => FormHoldsSuggestion

\* The response suggested all five parameters with an empty suggestionText:
\* the brew screen has read its params and the form is the default form.
C27_Witness ==
  /\ effectRan
  /\ Get(PushedResponse, << "suggestionText" >>) = Str(<<>>)
  /\ IsOf("suggestedGrindSize", "string")
  /\ IsOf("suggestedSteepTimeSeconds", "number")
  /\ form = [InitialForm EXCEPT !.beanName = pushed[1].bean.name]

\* With a suggestion text and a recommended bloom, or no bloom time, the
\* form holds the parameters.
C27_PrefilledWithText ==
  (/\ effectRan
   /\ Truthy(Get(PushedResponse, << "suggestionText" >>))
   /\ \/ Truthy(Get(PushedResponse, << "suggestedUseBloom" >>))
      \/ IsNull("suggestedBloomTimeSeconds")) => FormHoldsSuggestion

\* All five parameters were suggested and are in the form.
FormPrefilledReached ==
  /\ effectRan
  /\ form.grindSize = "Fine" /\ form.waterTemp = "96C"
  /\ form.steepTimeSeconds = 180 /\ form.useBloom /\ form.bloomTime = "30"


(* ----------------------------------------------------------------------- *)
\* Save is pressed on a form without bean name, grind size or water
\* temperature.
SaveRefused ==
  /\ handleSaveBrew_press
  /\ form.beanName = "" \/ form.grindSize = "" \/ form.waterTemp = ""

\* handleSaveBrew is continued after its read or its write.
SaveContinues ==
  /\ queue # <<>> /\ queue[1].op = "handleSaveBrew"
  /\ queue' # queue /\ Len(queue') <= Len(queue)

\* handleSaveBrew is continued after a write that was done.
SaveWritten ==
  /\ Awaiting("handleSaveBrew", "write") /\ queue[1].ok
  /\ queue' = Tail(queue)

\* The fields the save resets hold their defaults.
FormIsReset(f) ==
  /\ f.steepTimeSeconds = 180 /\ ~f.useBloom /\ f.rating = 5
  /\ f.bloomTime = "" /\ f.grindSize = "" /\ f.waterTemp = "" /\ f.notes = ""

\* C28: a save of a form without bean name, grind size or water temperature
\* queues no storage operation and leaves the stored documents and the form
\* as they are; a save whose read or write fails leaves the form as it is;
\* the save resets the form to its defaults after a write that was done, and
\* only then.
C28_FormResetOnlyAfterWrite ==
  [][/\ SaveRefused =>
          storage' = storage /\ queue' = queue /\ form' = form
     /\ handleSaveBrew_press => form' = form
     /\ (SaveContinues /\ ~SaveWritten) => form' = form
     /\ SaveWritten => FormIsReset(form') /\ form'.beanName = form.beanName
    ]_vars

\* A brew was saved, which reset the form, and the next save was refused.
C28_Witness ==
  /\ queue = <<>>
  /\ Len(saveLog) = 1
  /\ lastAlert = << "Missing Info" >>
  /\ form.beanName # "" /\ FormIsReset(form)
  /\ storage[BREWS_STORAGE_KEY] = Some(saveLog[1].written)

\* The write of a save was rejected and the form holds the entry.
WriteFailedReached ==
  /\ queue = <<>> /\ saveLog = <<>>
  /\ lastAlert = << "Could not save the brew." >>
  /\ form \in BrewForms


(* ----------------------------------------------------------------------- *)
\* getApiKey returns after a read that was done, the environment giving no
\* usable key.
KeyReturned ==
  /\ Awaiting("getApiKey", "read") /\ queue[1].ok
  /\ queue' = Tail(queue)
  /\ ~EnvUsable(envApiKey)

\* The last handler of the key that ended has saved a key that is not blank.
SavedNonBlank ==
  /\ lastAlert = KeySaved
  /\ savedApiKey # None /\ Trim(savedApiKey[1]) # <<>>

\* C29: with no usable environment key, getApiKey after a save of a
\* non-blank key returns that key and getApiKey after Remove returns null;
\* once the handlers of the key have ended savedApiKey is what getApiKey
\* returns, and after Remove that is no key for makeOpenAICall, which then
\* throws the missing-key error.
C29_SavedKeyRoundTrip ==
  /\ [][/\ (KeyReturned /\ SavedNonBlank) =>
             /\ apiKeyResult'[1].key = savedApiKey
             /\ savedApiKey[1] \in KeyInputs
        /\ (KeyReturned /\ lastAlert = KeyRemoved) =>
             /\ apiKeyResult'[1].key = None
             /\ savedApiKey = None
       ]_vars
  /\ [](/\ queue = <<>> /\ ~EnvUsable(envApiKey)
        /\ lastAlert = KeyRemoved
        => ~KeyFound(StoredKeyResult(storage[API_KEY_STORAGE_KEY], TRUE)))
  /\ [](/\ queue = <<>> /\ ~EnvUsable(envApiKey)
        /\ SavedNonBlank \/ lastAlert = KeyRemoved
        => savedApiKey = StoredKeyResult(storage[API_KEY_STORAGE_KEY], TRUE))

\* The key was removed and getApiKey has then returned null over the empty
\* text that Remove stored.
C29_Witness ==
  /\ queue = <<>> /\ lastAlert = KeyRemoved
  /\ storage[API_KEY_STORAGE_KEY] = Some(<<>>)
  /\ savedApiKey = None
  /\ apiKeyResult = Some(Resolved("getApiKeyInternal", None))

\* getApiKey has returned the key that was saved with a space before it.
SavedKeyReturned ==
  /\ queue = <<>> /\ lastAlert = KeySaved
  /\ savedApiKey = Some(<< " ", "sk-1" >>)
  /\ apiKeyResult = Some(Resolved("getApiKeyInternal", savedApiKey))


(* ----------------------------------------------------------------------- *)
\* stopTimer or resetTimer acts on a timer it was rendered as active with.
TimerStopped == stopTimer /\ rendered.timerActive

\* C30: at most one interval is set, and one is set exactly when
\* timerActive is true.
C30_OneIntervalWhileActive ==
  /\ Cardinality(live) <= 1
  /\ live # {} <=> timer.timerActive

\* startTimer ran twice before the component rendered: two intervals are
\* set, of which the state holds the second.
C30_Witness ==
  /\ Cardinality(live) = 2
  /\ timer.timerActive /\ ~rendered.timerActive
  /\ timer.timerInterval = Some(created)

\* When every press finds the component rendered with its state, at most
\* one interval is set, and exactly while timerActive; stopTimer copies the
\* seconds of the state into steepTimeSeconds and resetTimer sets
\* timerSeconds to 0.
C30_RenderedTimer ==
  /\ []C30_OneIntervalWhileActive
  /\ [][/\ TimerStopped => form'.steepTimeSeconds = timer.timerSeconds
        /\ resetTimer => timer'.timerSeconds = 0]_vars

\* The timer ran for two seconds and was stopped.
TimerStoppedReached ==
  /\ ~timer.timerActive /\ live = {} /\ created = 1
  /\ timer.timerSeconds = 2 /\ form.steepTimeSeconds = 2

====
